---- MODULE Spec2Model ----
(***************************************************************************)
(* Session manager of the chat backend (chat-backend/src/modules/auth):    *)
(* login, refresh-token rotation and logout over the credential store,     *)
(* with the audit sink they write to.                                      *)
(*                                                                         *)
(* Every request handler is an async function; between two awaited store   *)
(* calls other requests may run.  One action of the model is one stretch   *)
(* of a handler from one store call to the next: the awaited argon2        *)
(* computations in between read and write only the handler's own locals    *)
(* and are folded into the store step that precedes them.                  *)
(***************************************************************************)
EXTENDS Integers, Sequences, FiniteSets, TLC

\* ------------------------------------------------------------------ bounds
\* Rows the RefreshToken table holds at most.
MaxRows == 3
\* Rows whose expiresAt passes during a run.
MaxExpired == 1
\* Rows the User table holds at most.
MaxUsers == 3
\* Instants at which the rate limiters are looked at during a run.
MaxInstants == 3
\* Connection attempts the realtime gateway sees during a run.
MaxSockets == 2
\* Domain events (message:create, message:update, message:delete) broadcast
\* during a run.
MaxEvents == 1
\* Rows the Message table holds at most.
MaxMessages == 2
\* Broadcasts the message calls of a run send at most.
MaxBroadcasts == 3

\* ----------------------------------------------------- program constants
\* refresh: findMany(... take: 10)
RefreshTake == 10
\* logout: findMany(... take: 20)
LogoutTake == 20

\* register, createUser: username.length < 3, password.length < 8
MinUsernameLen == 3
MinPasswordLen == 8
\* normalizeAvatarUrl: trimmed.length > 500
AvatarMaxLen == 500

\* createMessage: trimmed.length > 2000
MessageMaxLen == 2000
\* listMessages: Math.min(Math.max(params.limit ?? 50, 1), 200)
DefaultListLimit == 50
MinListLimit == 1
MaxListLimit == 200

\* loginLimiter: windowMs 10 * 60 * 1000, max 10
LoginWindowMs == 600000
LoginMax == 10
\* refreshLimiter: windowMs 5 * 60 * 1000, max 30
RefreshWindowMs == 300000
RefreshMax == 30

\* The request slots: two calls can be in flight at the same time.
Procs == {1, 2}

\* --------------------------------------------------------------- strings
\* A username is a sequence of characters.
Lower(c) ==
  CASE c = "A" -> "a"
    [] c = "B" -> "b"
    [] c = "C" -> "c"
    [] OTHER -> c

RECURSIVE TrimStart(_)
TrimStart(s) ==
  IF s = <<>> THEN s
  ELSE IF Head(s) = " " THEN TrimStart(Tail(s)) ELSE s

RECURSIVE TrimEnd(_)
TrimEnd(s) ==
  IF s = <<>> THEN s
  ELSE IF s[Len(s)] = " " THEN TrimEnd(SubSeq(s, 1, Len(s) - 1)) ELSE s

\* username.trim().toLowerCase()
normalizeUsername(username) ==
  LET t == TrimEnd(TrimStart(username))
  IN  [i \in 1..Len(t) |-> Lower(t[i])]

\* ---------------------------------------------------------------- argon2
\* argon2.hash is salted and one-way: the digest is opaque and is used only
\* through argon2.verify, which accepts exactly the plaintext hashed.
Argon2Hash(plain) == [digestOf |-> plain]
Argon2Verify(digest, plain) == digest.digestOf = plain

hashRefreshToken(token) == Argon2Hash(token)
verifyRefreshTokenHash(hash, token) == Argon2Verify(hash, token)

\* ------------------------------------------------------------------- jwt
\* A signed token: the secret it was signed with (kind), the subject, the
\* role claim and, for refresh tokens, the jti (0 on access tokens).
signAccessToken(user) ==
  [kind |-> "access", sub |-> user.id, role |-> user.role, jti |-> 0]

signRefreshToken(user, jti) ==
  [kind |-> "refresh", sub |-> user.id, role |-> user.role, jti |-> jti]

\* What a client can send without the server's help.
NoToken == [kind |-> "none", sub |-> 0, role |-> "USER", jti |-> 0]
GarbageToken == [kind |-> "garbage", sub |-> 0, role |-> "USER", jti |-> 0]

\* ------------------------------------------------------------- the store
AnnName == <<"a", "n", "n">>
BobName == <<"b", "o", "b">>
AnnPassword == "ann-password"
BobPassword == "bob-password"

\* The user table when the run starts: two registered accounts.  avatarUrl
\* <<>> is null; deleted is deletedAt # null; `was` is history: the username
\* the row had when it was deleted.
InitialUsers ==
  << [id |-> 1, username |-> AnnName, passwordHash |-> Argon2Hash(AnnPassword),
      role |-> "USER", lastLoginAt |-> 0, avatarUrl |-> <<"/", "a">>,
      deleted |-> FALSE, was |-> <<>>],
     [id |-> 2, username |-> BobName, passwordHash |-> Argon2Hash(BobPassword),
      role |-> "ADMIN", lastLoginAt |-> 0, avatarUrl |-> <<>>,
      deleted |-> FALSE, was |-> <<>>] >>

VARIABLES
  users,          \* User table: sequence of rows, row i has id i
  refreshTokens,  \* RefreshToken table in creation order: row i has id i
  expired,        \* the oldest `expired` rows are past their expiresAt
  proc,           \* the requests in flight: locals and position of each
  last,           \* the response being sent, NoResponse between responses
  held,           \* refresh tokens released to clients so far
  hist,           \* history per presented jti (see NoHist)
  presence,       \* the presence map: user id -> username, avatarUrl, connections
  sockets,        \* the connection attempts so far, in order of arrival
  wire,           \* what io.emit has sent so far: event, payload, receivers
  trans,          \* history: the presence map after each change of it
  tally,          \* history per user id: connection and disconnect handler runs
  jar,            \* the cookies the browser of one client holds
  buckets,        \* per rate limiter, its store: client key -> count, resetAt
  clock,          \* Date.now() at each instant of the run so far, in ms
  admitted,       \* history per limiter: requests passed on, by key and time
  messages        \* Message table in creation order: row i has id i

authVars == <<users, refreshTokens, expired, proc, last, held, hist>>
presVars == <<presence, sockets, wire, trans, tally>>
limVars == <<buckets, clock, admitted>>
webVars == <<jar, buckets, clock, admitted>>
vars == <<users, refreshTokens, expired, proc, last, held, hist,
          presence, sockets, wire, trans, tally,
          jar, buckets, clock, admitted, messages>>

\* ------------------------------------------------------- store queries
RowIds == 1..Len(refreshTokens)

\* expiresAt > now: rows are created with the same TTL, so they pass their
\* expiry in creation order.
RowExpired(i) == i <= expired

\* The row holding the hash of `tok`, 0 when there is none.
RowOf(tok) ==
  LET m == {i \in RowIds : verifyRefreshTokenHash(refreshTokens[i].tokenHash, tok)}
  IN  IF m = {} THEN 0 ELSE CHOOSE i \in m : TRUE

\* The exp claim of a refresh token is set before its row's expiresAt, so a
\* token whose row has expired has expired too.
TokenExpired(tok) == RowOf(tok) # 0 /\ RowExpired(RowOf(tok))

\* jwt.verify(token, secret): the signature was made with this secret and
\* the token has not expired.
jwtVerify(tok, kind) == tok.kind = kind /\ ~TokenExpired(tok)

\* orderBy createdAt desc, take n: the n newest rows of S.
Newest(S, n) == {i \in S : Cardinality({j \in S : j > i}) < n}

\* Variant of RefreshCandidates: the query without `revokedAt: null`.
RefreshCandidates_WithRevoked(userId) ==
  Newest({i \in RowIds : /\ refreshTokens[i].userId = userId
                         /\ ~RowExpired(i)}, RefreshTake)

\* refresh: where { userId, revokedAt: null, expiresAt > now }, take 10
RefreshCandidates(userId) ==
  Newest({i \in RowIds : /\ refreshTokens[i].userId = userId
                         /\ ~refreshTokens[i].revoked
                         /\ ~RowExpired(i)}, RefreshTake)

\* logout: where { userId, revokedAt: null }, take 20
LogoutCandidates(userId) ==
  Newest({i \in RowIds : /\ refreshTokens[i].userId = userId
                         /\ ~refreshTokens[i].revoked}, LogoutTake)

\* The loop over the candidates, newest first, up to the first hash that
\* verifies; 0 when none does.
FirstMatch(cands, tok) ==
  LET m == {i \in cands : verifyRefreshTokenHash(refreshTokens[i].tokenHash, tok)}
  IN  IF m = {} THEN 0 ELSE CHOOSE i \in m : \A j \in m : j <= i

\* prisma.user.findUnique({ where: { username } }): the row id, 0 when none.
FindUserByUsername(name) ==
  LET m == {i \in 1..Len(users) : users[i].username = name}
  IN  IF m = {} THEN 0 ELSE CHOOSE i \in m : TRUE

\* prisma.user.findUnique({ where: { id } })
FindUserById(id) == IF id \in 1..Len(users) THEN id ELSE 0

\* prisma.refreshToken.create: revokedAt and replacedByTokenId start null.
\* `replaces` is history, not a column: the row the creating refresh had
\* matched (0 for a row created by login).
NewRow(userId, token, replaces) ==
  [userId |-> userId, tokenHash |-> hashRefreshToken(token), revoked |-> FALSE,
   replacedByTokenId |-> 0, replaces |-> replaces]

\* -------------------------------------------------------------- audit
\* AuditService.log: one row appended to the AuditLog table (0 is null).
\* The table is only ever appended to; the rows a call appended are kept
\* with the call.
AuditRow(actor, action, entityType, entityId, reason, attempted) ==
  [actorUserId |-> actor, action |-> action, entityType |-> entityType,
   entityId |-> entityId, reason |-> reason, usernameAttempted |-> attempted]

\* ------------------------------------------------------------ history
\* Per jti: successful refreshes that presented it, whether a logout of
\* its live session has returned, AUTH_LOGOUT rows written for it.
NoHist == [refreshed |-> 0, loggedOut |-> FALSE, logoutAudits |-> 0]
Hist(j) == IF j \in DOMAIN hist THEN hist[j] ELSE NoHist
HistWith(j, h) == [k \in DOMAIN hist \cup {j} |-> IF k = j THEN h ELSE hist[k]]

\* How the token a call presents stands in the store when the call arrives.
TokenClass(tok) ==
  IF tok.kind = "none" THEN "missing"
  ELSE IF ~jwtVerify(tok, "refresh") THEN "invalid"
  ELSE IF RowOf(tok) = 0 THEN "unknown"
  ELSE IF refreshTokens[RowOf(tok)].revoked THEN "replay"
  ELSE "live"

\* -------------------------------------------------------------- calls
\* The locals of a call.  wrote (the call changed a row), auditFailed (an
\* audit write of the call threw), class, afterRefresh and afterLogout (how
\* the presented token stood when the call arrived) and freed (the
\* username a register asks for was that of a deleted user and is held by
\* nobody when the call arrives) are history.  cookieToken and headerToken
\* are the XSRF-TOKEN cookie and the CSRF header of the request.  content is
\* the trimmed content of a message call and listed the rows listMessages
\* returned.
Idle ==
  [op |-> "none", pc |-> "idle", tok |-> NoToken, username |-> <<>>,
   user |-> 0, role |-> "USER", matched |-> 0, newRow |-> 0,
   newTok |-> NoToken, access |-> NoToken, status |-> 0, message |-> "",
   out |-> NoToken, emitted |-> <<>>, wrote |-> FALSE, auditFailed |-> FALSE,
   class |-> "none", afterRefresh |-> FALSE, afterLogout |-> FALSE,
   password |-> "", avatarUrl |-> <<>>, target |-> 0, actor |-> 0,
   freed |-> FALSE, cookieToken |-> NoToken, headerToken |-> NoToken,
   content |-> <<>>, listed |-> <<>>]

NoResponse == Idle

\* One response is observed before the next step is taken.
Quiet == last = NoResponse

\* errorHandler: an HttpError answers its status and message, anything
\* else 500 "Internal Server Error".
Thrown(c, status, message) ==
  [c EXCEPT !.pc = "done", !.status = status, !.message = message]

InternalError(c) == Thrown(c, 500, "Internal Server Error")

\* A failure branch: write the audit row, then throw the HttpError.  The
\* audit write is awaited, so when it fails its error is what is thrown.
AuditThenThrow(c, row, auditOk, status, message) ==
  IF auditOk
  THEN Thrown([c EXCEPT !.emitted = Append(@, row)], status, message)
  ELSE InternalError([c EXCEPT !.auditFailed = TRUE])

\* A step leaves the call at c2: still running, or done and answering.
Goes(p, c2) ==
  IF c2.pc = "done"
  THEN proc' = [proc EXCEPT ![p] = Idle] /\ last' = c2
  ELSE proc' = [proc EXCEPT ![p] = c2] /\ last' = last

\* The gateway after initSocket: nobody is connected.
PresenceInit ==
  /\ presence = [u \in {} |-> 0]
  /\ sockets = <<>>
  /\ wire = <<>>
  /\ trans = <<>>
  /\ tally = [u \in {} |-> 0]

\* The browser has no cookie, and each rateLimit(options) has just made its
\* empty Map.
LimiterNames == {"login", "refresh"}

WebInit ==
  /\ jar = {}
  /\ buckets = [l \in LimiterNames |-> [k \in {} |-> 0]]
  /\ clock = <<0>>
  /\ admitted = [l \in LimiterNames |-> [k \in {} |-> 0]]

Init ==
  /\ users = InitialUsers
  /\ refreshTokens = <<>>
  /\ expired = 0
  /\ proc = [p \in Procs |-> Idle]
  /\ last = NoResponse
  /\ held = {}
  /\ hist = [j \in {} |-> NoHist]
  /\ PresenceInit
  /\ WebInit
  /\ messages = <<>>

\* What a store call or the audit write of a step does: work, or throw.
Faults == {"none", "store", "audit"}

\* ---------------------------------------------------------------- login
\* AuthService.login up to the password check: validation, findUnique by
\* the normalized username, argon2.verify, and the two failure branches.
LoginFailedRow(actor, attempted) ==
  AuditRow(actor, "AUTH_LOGIN_FAILED", "User", actor, "INVALID_CREDENTIALS",
           attempted)

\* Variant of LoginNoSuchUser: an unknown username answered in its own words.
LoginNoSuchUser_Distinct(c, auditOk) ==
  AuditThenThrow(c, LoginFailedRow(0, c.username), auditOk,
                 404, "user not found")

\* if (!user): audit without an actor, then 401.
LoginNoSuchUser(c, auditOk) ==
  AuditThenThrow(c, LoginFailedRow(0, c.username), auditOk,
                 401, "invalid credentials")

\* Variant of LoginWrongPassword: the 401 without the audit row.
LoginWrongPassword_Silent(c, auditOk) ==
  Thrown(c, 401, "invalid credentials")

\* if (!ok): audit with the targeted user as actor, then 401.
LoginWrongPassword(c, auditOk) ==
  AuditThenThrow(c, LoginFailedRow(c.user, c.username), auditOk,
                 401, "invalid credentials")

LoginArrives(username, password, fault) ==
  LET c == [Idle EXCEPT !.op = "login", !.username = normalizeUsername(username)]
      u == FindUserByUsername(c.username)
  IN  IF username = <<>> \/ password = ""
      THEN Thrown(c, 400, "username and password are required")
      ELSE IF fault = "store" THEN InternalError(c)
      ELSE IF u = 0 THEN LoginNoSuchUser(c, fault # "audit")
      ELSE IF ~Argon2Verify(users[u].passwordHash, password)
      THEN LoginWrongPassword([c EXCEPT !.user = u], fault # "audit")
      ELSE [c EXCEPT !.pc = "login_create", !.user = u, !.role = users[u].role]

LoginStart(p, username, password, fault) ==
  /\ Quiet
  /\ proc[p].pc = "idle"
  /\ Goes(p, LoginArrives(username, password, fault))
  /\ UNCHANGED <<users, refreshTokens, expired, held, hist>>

\* Variant of LoginCreate: one row per user, written over by each login.
LoginCreate_Reuses(p, ok) ==
  /\ Quiet
  /\ proc[p].pc = "login_create"
  /\ LET c == proc[p]
         u == [id |-> c.user, role |-> c.role]
         refreshToken == signRefreshToken(u, Len(refreshTokens) + 1)
         mine == {i \in RowIds : refreshTokens[i].userId = c.user}
         row == IF mine = {} THEN Len(refreshTokens) + 1
                ELSE CHOOSE i \in mine : TRUE
     IN  IF ok
         THEN /\ refreshTokens' =
                   IF mine = {}
                   THEN Append(refreshTokens, NewRow(c.user, refreshToken, 0))
                   ELSE [refreshTokens EXCEPT ![row] = NewRow(c.user, refreshToken, 0)]
              /\ Goes(p, [c EXCEPT !.pc = "login_lastLogin",
                                   !.access = signAccessToken(u),
                                   !.newTok = refreshToken,
                                   !.newRow = row,
                                   !.wrote = TRUE])
         ELSE /\ refreshTokens' = refreshTokens
              /\ Goes(p, InternalError(c))
  /\ UNCHANGED <<users, expired, held, hist>>

\* signAccessToken, signRefreshToken, hashRefreshToken and
\* prisma.refreshToken.create.  crypto.randomUUID() makes the jti unique;
\* it is kept as the id the new row gets.
LoginCreate(p, ok) ==
  /\ Quiet
  /\ proc[p].pc = "login_create"
  /\ LET c == proc[p]
         u == [id |-> c.user, role |-> c.role]
         refreshToken == signRefreshToken(u, Len(refreshTokens) + 1)
     IN  IF ok
         THEN /\ refreshTokens' = Append(refreshTokens, NewRow(c.user, refreshToken, 0))
              /\ Goes(p, [c EXCEPT !.pc = "login_lastLogin",
                                   !.access = signAccessToken(u),
                                   !.newTok = refreshToken,
                                   !.newRow = Len(refreshTokens) + 1,
                                   !.wrote = TRUE])
         ELSE /\ refreshTokens' = refreshTokens
              /\ Goes(p, InternalError(c))
  /\ UNCHANGED <<users, expired, held, hist>>

\* prisma.user.update({ data: { lastLoginAt: new Date() } }); the date is
\* kept as the id of the row this login created, which grows with time.
LoginLastLogin(p, ok) ==
  /\ Quiet
  /\ proc[p].pc = "login_lastLogin"
  /\ LET c == proc[p]
     IN  IF ok
         THEN /\ users' = [users EXCEPT ![c.user].lastLoginAt = c.newRow]
              /\ Goes(p, [c EXCEPT !.pc = "login_audit"])
         ELSE /\ users' = users
              /\ Goes(p, InternalError(c))
  /\ UNCHANGED <<refreshTokens, expired, held, hist>>

\* AuditService.log(AUTH_LOGIN_SUCCESS) and the return of the tokens;
\* AuthController.login sets the refresh cookie.
LoginFinish(p, auditOk) ==
  /\ Quiet
  /\ proc[p].pc = "login_audit"
  /\ LET c == proc[p]
         row == AuditRow(c.user, "AUTH_LOGIN_SUCCESS", "User", c.user, "", <<>>)
     IN  IF auditOk
         THEN /\ Goes(p, [c EXCEPT !.pc = "done", !.status = 200, !.out = c.newTok,
                                   !.emitted = Append(@, row)])
              /\ held' = held \cup {c.newTok}
         ELSE /\ Goes(p, InternalError([c EXCEPT !.auditFailed = TRUE]))
              /\ held' = held
  /\ UNCHANGED <<users, refreshTokens, expired, hist>>

\* -------------------------------------------------------------- refresh
\* Variant of RefreshArrives: an unrecognized token is refused without an
\* audit row.
RefreshArrives_Silent(tok, fault) ==
  LET c == [Idle EXCEPT !.op = "refresh", !.tok = tok,
                        !.class = TokenClass(tok),
                        !.afterRefresh = Hist(tok.jti).refreshed > 0,
                        !.afterLogout = Hist(tok.jti).loggedOut]
      failed(actor, entityType, reason) ==
        AuditRow(actor, "AUTH_REFRESH_FAILED", entityType, actor, reason, <<>>)
      matched == FirstMatch(RefreshCandidates(tok.sub), tok)
  IN  IF tok.kind = "none"
      THEN AuditThenThrow(c, failed(0, "RefreshToken", "MISSING_REFRESH_TOKEN"),
                          fault # "audit", 401, "missing refresh token")
      ELSE IF ~jwtVerify(tok, "refresh")
      THEN AuditThenThrow(c, failed(0, "RefreshToken",
                                    "INVALID_OR_EXPIRED_REFRESH_TOKEN"),
                          fault # "audit", 401, "invalid refresh token")
      ELSE IF fault = "store" THEN InternalError(c)
      ELSE IF matched = 0
      THEN Thrown(c, 401, "refresh token not recognized")
      ELSE [c EXCEPT !.pc = "refresh_findUser", !.matched = matched]

\* AuthService.refresh up to the matched row: the missing-token branch,
\* jwt.verify, findMany of the subject's candidates and the hash scan.
RefreshArrives(tok, fault) ==
  LET c == [Idle EXCEPT !.op = "refresh", !.tok = tok,
                        !.class = TokenClass(tok),
                        !.afterRefresh = Hist(tok.jti).refreshed > 0,
                        !.afterLogout = Hist(tok.jti).loggedOut]
      failed(actor, entityType, reason) ==
        AuditRow(actor, "AUTH_REFRESH_FAILED", entityType, actor, reason, <<>>)
      matched == FirstMatch(RefreshCandidates(tok.sub), tok)
  IN  IF tok.kind = "none"
      THEN AuditThenThrow(c, failed(0, "RefreshToken", "MISSING_REFRESH_TOKEN"),
                          fault # "audit", 401, "missing refresh token")
      ELSE IF ~jwtVerify(tok, "refresh")
      THEN AuditThenThrow(c, failed(0, "RefreshToken",
                                    "INVALID_OR_EXPIRED_REFRESH_TOKEN"),
                          fault # "audit", 401, "invalid refresh token")
      ELSE IF fault = "store" THEN InternalError(c)
      ELSE IF matched = 0
      THEN AuditThenThrow(c, failed(tok.sub, "User", "REFRESH_TOKEN_NOT_RECOGNIZED"),
                          fault # "audit", 401, "refresh token not recognized")
      ELSE [c EXCEPT !.pc = "refresh_findUser", !.matched = matched]

RefreshStart(p, tok, fault) ==
  /\ Quiet
  /\ proc[p].pc = "idle"
  /\ Goes(p, RefreshArrives(tok, fault))
  /\ UNCHANGED <<users, refreshTokens, expired, held, hist>>

\* Variant of RefreshFindUser: the role is taken from the claims of the
\* presented token.
RefreshFindUser_RoleFromToken(p, fault) ==
  /\ Quiet
  /\ proc[p].pc = "refresh_findUser"
  /\ LET c == proc[p]
         u == FindUserById(c.tok.sub)
         row == AuditRow(c.tok.sub, "AUTH_REFRESH_FAILED", "User", c.tok.sub,
                         "USER_NOT_FOUND", <<>>)
     IN  Goes(p, IF fault = "store" THEN InternalError(c)
                 ELSE IF u = 0
                 THEN AuditThenThrow(c, row, fault # "audit", 401, "user not found")
                 ELSE [c EXCEPT !.pc = "refresh_create", !.user = u,
                                !.role = c.tok.role])
  /\ UNCHANGED <<users, refreshTokens, expired, held, hist>>

\* prisma.user.findUnique({ where: { id: userId } }) and its failure branch.
RefreshFindUser(p, fault) ==
  /\ Quiet
  /\ proc[p].pc = "refresh_findUser"
  /\ LET c == proc[p]
         u == FindUserById(c.tok.sub)
         row == AuditRow(c.tok.sub, "AUTH_REFRESH_FAILED", "User", c.tok.sub,
                         "USER_NOT_FOUND", <<>>)
     IN  Goes(p, IF fault = "store" THEN InternalError(c)
                 ELSE IF u = 0
                 THEN AuditThenThrow(c, row, fault # "audit", 401, "user not found")
                 ELSE [c EXCEPT !.pc = "refresh_create", !.user = u,
                                !.role = users[u].role])
  /\ UNCHANGED <<users, refreshTokens, expired, held, hist>>

\* signRefreshToken, hashRefreshToken and prisma.refreshToken.create of the
\* new row.
RefreshCreate(p, ok) ==
  /\ Quiet
  /\ proc[p].pc = "refresh_create"
  /\ LET c == proc[p]
         u == [id |-> c.user, role |-> c.role]
         newRefreshToken == signRefreshToken(u, Len(refreshTokens) + 1)
     IN  IF ok
         THEN /\ refreshTokens' =
                   Append(refreshTokens, NewRow(c.user, newRefreshToken, c.matched))
              /\ Goes(p, [c EXCEPT !.pc = "refresh_revoke",
                                   !.newTok = newRefreshToken,
                                   !.newRow = Len(refreshTokens) + 1,
                                   !.wrote = TRUE])
         ELSE /\ refreshTokens' = refreshTokens
              /\ Goes(p, InternalError(c))
  /\ UNCHANGED <<users, expired, held, hist>>

\* Variant of RefreshRevoke: the update sets replacedByTokenId only.
RefreshRevoke_KeepsActive(p, ok) ==
  /\ Quiet
  /\ proc[p].pc = "refresh_revoke"
  /\ LET c == proc[p]
     IN  IF ok
         THEN /\ refreshTokens' =
                   [refreshTokens EXCEPT ![c.matched].replacedByTokenId = c.newRow]
              /\ Goes(p, [c EXCEPT !.pc = "refresh_audit"])
         ELSE /\ refreshTokens' = refreshTokens
              /\ Goes(p, InternalError(c))
  /\ UNCHANGED <<users, expired, held, hist>>

\* Variant of RefreshRevoke: the update sets revokedAt only.
RefreshRevoke_NoLink(p, ok) ==
  /\ Quiet
  /\ proc[p].pc = "refresh_revoke"
  /\ LET c == proc[p]
     IN  IF ok
         THEN /\ refreshTokens' = [refreshTokens EXCEPT ![c.matched].revoked = TRUE]
              /\ Goes(p, [c EXCEPT !.pc = "refresh_audit"])
         ELSE /\ refreshTokens' = refreshTokens
              /\ Goes(p, InternalError(c))
  /\ UNCHANGED <<users, expired, held, hist>>

\* Variant of RefreshRevoke: a failed update is ignored and the call goes on.
RefreshRevoke_Swallows(p, ok) ==
  /\ Quiet
  /\ proc[p].pc = "refresh_revoke"
  /\ LET c == proc[p]
     IN  IF ok
         THEN /\ refreshTokens' =
                   [refreshTokens EXCEPT ![c.matched].revoked = TRUE,
                                         ![c.matched].replacedByTokenId = c.newRow]
              /\ Goes(p, [c EXCEPT !.pc = "refresh_audit"])
         ELSE /\ refreshTokens' = refreshTokens
              /\ Goes(p, [c EXCEPT !.pc = "refresh_audit"])
  /\ UNCHANGED <<users, expired, held, hist>>

\* prisma.refreshToken.update of the matched row: revokedAt and
\* replacedByTokenId.
RefreshRevoke(p, ok) ==
  /\ Quiet
  /\ proc[p].pc = "refresh_revoke"
  /\ LET c == proc[p]
     IN  IF ok
         THEN /\ refreshTokens' =
                   [refreshTokens EXCEPT ![c.matched].revoked = TRUE,
                                         ![c.matched].replacedByTokenId = c.newRow]
              /\ Goes(p, [c EXCEPT !.pc = "refresh_audit"])
         ELSE /\ refreshTokens' = refreshTokens
              /\ Goes(p, InternalError(c))
  /\ UNCHANGED <<users, expired, held, hist>>

\* signAccessToken, AuditService.log(AUTH_REFRESH_SUCCESS) and the return
\* of the new pair; AuthController.refresh sets the new refresh cookie.
RefreshFinish(p, auditOk) ==
  /\ Quiet
  /\ proc[p].pc = "refresh_audit"
  /\ LET c == proc[p]
         u == [id |-> c.user, role |-> c.role]
         row == AuditRow(c.user, "AUTH_REFRESH_SUCCESS", "User", c.user, "", <<>>)
         h == Hist(c.tok.jti)
     IN  IF auditOk
         THEN /\ Goes(p, [c EXCEPT !.pc = "done", !.status = 200, !.out = c.newTok,
                                   !.access = signAccessToken(u),
                                   !.emitted = Append(@, row)])
              /\ held' = held \cup {c.newTok}
              /\ hist' = HistWith(c.tok.jti, [h EXCEPT !.refreshed = @ + 1])
         ELSE /\ Goes(p, InternalError([c EXCEPT !.auditFailed = TRUE]))
              /\ held' = held
              /\ hist' = hist
  /\ UNCHANGED <<users, refreshTokens, expired>>

\* --------------------------------------------------------------- logout
\* AuthService.logout returns and AuthController.logout answers 204.
LogoutReturns(c) == [c EXCEPT !.pc = "done", !.status = 204]

\* The history notes a logout that returned for a token whose session was
\* live when the call arrived.
HistAfterLogout(c, audited) ==
  LET h == Hist(c.tok.jti)
      h2 == [h EXCEPT !.loggedOut = @ \/ c.class = "live",
                      !.logoutAudits = IF audited THEN @ + 1 ELSE @]
  IN  IF h2 = h THEN hist ELSE HistWith(c.tok.jti, h2)

\* AuthService.logout up to the matched row: the missing-token return,
\* jwt.verify, findMany of the subject's non-revoked rows and the hash scan.
\* Whatever throws lands in the catch, which ignores it.
LogoutArrives(tok, ok) ==
  LET c == [Idle EXCEPT !.op = "logout", !.tok = tok,
                        !.class = TokenClass(tok),
                        !.afterLogout = Hist(tok.jti).loggedOut]
      matched == FirstMatch(LogoutCandidates(tok.sub), tok)
  IN  IF tok.kind = "none" THEN LogoutReturns(c)
      ELSE IF ~jwtVerify(tok, "refresh") THEN LogoutReturns(c)
      ELSE IF ~ok THEN LogoutReturns(c)
      ELSE IF matched = 0 THEN LogoutReturns(c)
      ELSE [c EXCEPT !.pc = "logout_revoke", !.matched = matched]

LogoutStart(p, tok, ok) ==
  /\ Quiet
  /\ proc[p].pc = "idle"
  /\ LET c2 == LogoutArrives(tok, ok)
     IN  /\ Goes(p, c2)
         /\ hist' = IF c2.pc = "done" THEN HistAfterLogout(c2, FALSE) ELSE hist
  /\ UNCHANGED <<users, refreshTokens, expired, held>>

\* prisma.refreshToken.update({ data: { revokedAt } }) of the matched row.
LogoutRevoke(p, ok) ==
  /\ Quiet
  /\ proc[p].pc = "logout_revoke"
  /\ LET c == proc[p]
     IN  IF ok
         THEN /\ refreshTokens' = [refreshTokens EXCEPT ![c.matched].revoked = TRUE]
              /\ Goes(p, [c EXCEPT !.pc = "logout_audit", !.wrote = TRUE])
              /\ hist' = hist
         ELSE /\ refreshTokens' = refreshTokens
              /\ Goes(p, LogoutReturns(c))
              /\ hist' = HistAfterLogout(c, FALSE)
  /\ UNCHANGED <<users, expired, held>>

\* Variant of LogoutFinish: the audit write outside the try.
LogoutFinish_Rethrows(p, auditOk) ==
  /\ Quiet
  /\ proc[p].pc = "logout_audit"
  /\ LET c == proc[p]
         row == AuditRow(c.tok.sub, "AUTH_LOGOUT", "User", c.tok.sub, "", <<>>)
         c2 == IF auditOk THEN LogoutReturns([c EXCEPT !.emitted = Append(@, row)])
               ELSE InternalError([c EXCEPT !.auditFailed = TRUE])
     IN  /\ Goes(p, c2)
         /\ hist' = HistAfterLogout(c, auditOk)
  /\ UNCHANGED <<users, refreshTokens, expired, held>>

\* if (revoked) AuditService.log(AUTH_LOGOUT), inside the try.
LogoutFinish(p, auditOk) ==
  /\ Quiet
  /\ proc[p].pc = "logout_audit"
  /\ LET c == proc[p]
         row == AuditRow(c.tok.sub, "AUTH_LOGOUT", "User", c.tok.sub, "", <<>>)
         c2 == IF auditOk THEN [c EXCEPT !.emitted = Append(@, row)]
               ELSE [c EXCEPT !.auditFailed = TRUE]
     IN  /\ Goes(p, LogoutReturns(c2))
         /\ hist' = HistAfterLogout(c, auditOk)
  /\ UNCHANGED <<users, refreshTokens, expired, held>>

\* ------------------------------------------------------------- register
\* The length of a password (a TLA+ string has none of its own).
PasswordLen(w) ==
  CASE w = "" -> 0
    [] w = "guess" -> 5
    [] w = AnnPassword -> 12
    [] w = BobPassword -> 12
    [] OTHER -> 12

StartsWith(s, prefix) ==
  Len(s) >= Len(prefix) /\ SubSeq(s, 1, Len(prefix)) = prefix

\* normalizeAvatarUrl: <<>> is null (also what a non-string gives); err is
\* the message of the HttpError(400) thrown, "" when none is.
normalizeAvatarUrl(raw) ==
  LET trimmed == TrimEnd(TrimStart(raw))
      isAllowed ==
        \/ StartsWith(trimmed, <<"h", "t", "t", "p", ":", "/", "/">>)
        \/ StartsWith(trimmed, <<"h", "t", "t", "p", "s", ":", "/", "/">>)
        \/ StartsWith(trimmed, <<"/">>)
  IN  IF trimmed = <<>> THEN [err |-> "", url |-> <<>>]
      ELSE IF Len(trimmed) > AvatarMaxLen
      THEN [err |-> "avatarUrl too long", url |-> <<>>]
      ELSE IF ~isAllowed
      THEN [err |-> "avatarUrl must be a relative path or http(s) URL",
            url |-> <<>>]
      ELSE [err |-> "", url |-> trimmed]

\* The username was that of a deleted user and no user that is not deleted
\* holds it now.
Freed(name) ==
  /\ \E d \in 1..Len(users) : users[d].deleted /\ users[d].was = name
  /\ \A i \in 1..Len(users) : users[i].username = name => users[i].deleted

\* AuthService.register up to the duplicate check: the input checks on the
\* username and password as typed, normalizeUsername, normalizeAvatarUrl,
\* findUnique by the normalized username.
RegisterArrives(username, password, avatarUrlInput, ok) ==
  LET normalized == normalizeUsername(username)
      avatar == normalizeAvatarUrl(avatarUrlInput)
      c == [Idle EXCEPT !.op = "register", !.username = normalized,
                        !.password = password, !.freed = Freed(normalized)]
  IN  IF username = <<>> \/ password = ""
      THEN Thrown(c, 400, "username and password are required")
      ELSE IF Len(username) < MinUsernameLen
      THEN Thrown(c, 400, "username too short")
      ELSE IF PasswordLen(password) < MinPasswordLen
      THEN Thrown(c, 400, "password too short")
      ELSE IF avatar.err # "" THEN Thrown(c, 400, avatar.err)
      ELSE IF ~ok THEN InternalError(c)
      ELSE IF FindUserByUsername(normalized) # 0
      THEN Thrown(c, 409, "username already exists")
      ELSE [c EXCEPT !.pc = "register_create", !.avatarUrl = avatar.url]

RegisterStart(p, username, password, avatarUrlInput, ok) ==
  /\ Quiet
  /\ proc[p].pc = "idle"
  /\ Goes(p, RegisterArrives(username, password, avatarUrlInput, ok))
  /\ UNCHANGED <<users, refreshTokens, expired, held, hist>>

\* argon2.hash(password) and prisma.user.create.  username is the unique
\* key findUnique looks rows up by: a create with a username some row holds
\* is refused by the store, and that error is not an HttpError.  role takes
\* its default.
RegisterCreate(p, ok) ==
  /\ Quiet
  /\ proc[p].pc = "register_create"
  /\ LET c == proc[p]
         id == Len(users) + 1
     IN  IF ok /\ FindUserByUsername(c.username) = 0
         THEN /\ users' = Append(users,
                   [id |-> id, username |-> c.username,
                    passwordHash |-> Argon2Hash(c.password), role |-> "USER",
                    lastLoginAt |-> 0, avatarUrl |-> c.avatarUrl,
                    deleted |-> FALSE, was |-> <<>>])
              /\ Goes(p, [c EXCEPT !.pc = "register_audit", !.user = id,
                                   !.role = "USER", !.wrote = TRUE])
         ELSE /\ users' = users
              /\ Goes(p, InternalError(c))
  /\ UNCHANGED <<refreshTokens, expired, held, hist>>

\* AuditService.log(AUTH_REGISTER) and the return of the user;
\* AuthController.register answers 201.
RegisterFinish(p, auditOk) ==
  /\ Quiet
  /\ proc[p].pc = "register_audit"
  /\ LET c == proc[p]
         row == AuditRow(c.user, "AUTH_REGISTER", "User", c.user, "", <<>>)
     IN  Goes(p, IF auditOk
                 THEN [c EXCEPT !.pc = "done", !.status = 201,
                                !.emitted = Append(@, row)]
                 ELSE InternalError([c EXCEPT !.auditFailed = TRUE]))
  /\ UNCHANGED <<users, refreshTokens, expired, held, hist>>

\* ------------------------------------------------------ user management
Roles == {"USER", "ADMIN"}

\* UsersService.updateRole up to the update: the role check, findUnique by
\* id, the deleted and self checks, and the return when nothing changes.
UpdateRoleArrives(userId, role, actorUserId, ok) ==
  LET c == [Idle EXCEPT !.op = "updateRole", !.target = userId,
                        !.actor = actorUserId, !.role = role]
      u == FindUserById(userId)
  IN  IF role \notin Roles THEN Thrown(c, 400, "invalid role")
      ELSE IF ~ok THEN InternalError(c)
      ELSE IF u = 0 \/ users[u].deleted THEN Thrown(c, 404, "user not found")
      ELSE IF userId = actorUserId
      THEN Thrown(c, 400, "admins cannot change their own role")
      ELSE IF users[u].role = role
      THEN [c EXCEPT !.pc = "done", !.status = 200, !.user = u]
      ELSE [c EXCEPT !.pc = "role_update", !.user = u]

UpdateRoleStart(p, userId, role, actorUserId, ok) ==
  /\ Quiet
  /\ proc[p].pc = "idle"
  /\ Goes(p, UpdateRoleArrives(userId, role, actorUserId, ok))
  /\ UNCHANGED <<users, refreshTokens, expired, held, hist>>

\* prisma.user.update({ data: { role } }).
UpdateRoleUpdate(p, ok) ==
  /\ Quiet
  /\ proc[p].pc = "role_update"
  /\ LET c == proc[p]
     IN  IF ok
         THEN /\ users' = [users EXCEPT ![c.user].role = c.role]
              /\ Goes(p, [c EXCEPT !.pc = "role_audit", !.wrote = TRUE])
         ELSE /\ users' = users
              /\ Goes(p, InternalError(c))
  /\ UNCHANGED <<refreshTokens, expired, held, hist>>

\* AuditService.log(ADMIN_UPDATE_ROLE) and the return of the user.
UpdateRoleFinish(p, auditOk) ==
  /\ Quiet
  /\ proc[p].pc = "role_audit"
  /\ LET c == proc[p]
         row == AuditRow(c.actor, "ADMIN_UPDATE_ROLE", "User", c.user, "", <<>>)
     IN  Goes(p, IF auditOk
                 THEN [c EXCEPT !.pc = "done", !.status = 200,
                                !.emitted = Append(@, row)]
                 ELSE InternalError([c EXCEPT !.auditFailed = TRUE]))
  /\ UNCHANGED <<users, refreshTokens, expired, held, hist>>

\* `deleted_${user.username}_${crypto.randomUUID().slice(0, 8)}`: the random
\* part is a mark no client types.
DeletedUsername(username) == <<"deleted_">> \o username \o <<"_", "uuid">>

\* UsersService.deleteUser up to the transaction: findUnique by id, the
\* deleted and self checks.  The username read here names the deleted row.
DeleteUserArrives(userId, actorUserId, ok) ==
  LET c == [Idle EXCEPT !.op = "deleteUser", !.target = userId,
                        !.actor = actorUserId]
      u == FindUserById(userId)
  IN  IF ~ok THEN InternalError(c)
      ELSE IF u = 0 \/ users[u].deleted THEN Thrown(c, 404, "user not found")
      ELSE IF userId = actorUserId
      THEN Thrown(c, 400, "admins cannot delete themselves")
      ELSE [c EXCEPT !.pc = "delete_tx", !.user = u,
                     !.username = users[u].username]

DeleteUserStart(p, userId, actorUserId, ok) ==
  /\ Quiet
  /\ proc[p].pc = "idle"
  /\ Goes(p, DeleteUserArrives(userId, actorUserId, ok))
  /\ UNCHANGED <<users, refreshTokens, expired, held, hist>>

\* Variant of DeleteUserTransaction: the row is marked deleted and keeps its
\* username.
DeleteUserTransaction_KeepsName(p, ok) ==
  /\ Quiet
  /\ proc[p].pc = "delete_tx"
  /\ LET c == proc[p]
     IN  IF ok
         THEN /\ refreshTokens' =
                   [i \in DOMAIN refreshTokens |->
                      IF refreshTokens[i].userId = c.user
                      THEN [refreshTokens[i] EXCEPT !.revoked = TRUE]
                      ELSE refreshTokens[i]]
              /\ users' = [users EXCEPT
                   ![c.user].passwordHash = Argon2Hash("uuid"),
                   ![c.user].avatarUrl = <<>>,
                   ![c.user].deleted = TRUE,
                   ![c.user].was = c.username]
              /\ Goes(p, [c EXCEPT !.pc = "delete_audit", !.wrote = TRUE])
         ELSE /\ refreshTokens' = refreshTokens
              /\ users' = users
              /\ Goes(p, InternalError(c))
  /\ UNCHANGED <<expired, held, hist>>

\* prisma.$transaction: refreshToken.updateMany({ where: { userId } }) sets
\* revokedAt on every row of the user, and user.update renames the row,
\* replaces the password hash by that of a random value, clears the avatar
\* and sets deletedAt.  Both or neither.
DeleteUserTransaction(p, ok) ==
  /\ Quiet
  /\ proc[p].pc = "delete_tx"
  /\ LET c == proc[p]
     IN  IF ok
         THEN /\ refreshTokens' =
                   [i \in DOMAIN refreshTokens |->
                      IF refreshTokens[i].userId = c.user
                      THEN [refreshTokens[i] EXCEPT !.revoked = TRUE]
                      ELSE refreshTokens[i]]
              /\ users' = [users EXCEPT
                   ![c.user].username = DeletedUsername(c.username),
                   ![c.user].passwordHash = Argon2Hash("uuid"),
                   ![c.user].avatarUrl = <<>>,
                   ![c.user].deleted = TRUE,
                   ![c.user].was = c.username]
              /\ Goes(p, [c EXCEPT !.pc = "delete_audit", !.wrote = TRUE])
         ELSE /\ refreshTokens' = refreshTokens
              /\ users' = users
              /\ Goes(p, InternalError(c))
  /\ UNCHANGED <<expired, held, hist>>

\* AuditService.log(ADMIN_DELETE_USER); UsersController.delete answers 204.
DeleteUserFinish(p, auditOk) ==
  /\ Quiet
  /\ proc[p].pc = "delete_audit"
  /\ LET c == proc[p]
         row == AuditRow(c.actor, "ADMIN_DELETE_USER", "User", c.target, "", <<>>)
     IN  Goes(p, IF auditOk
                 THEN [c EXCEPT !.pc = "done", !.status = 204,
                                !.emitted = Append(@, row)]
                 ELSE InternalError([c EXCEPT !.auditFailed = TRUE]))
  /\ UNCHANGED <<users, refreshTokens, expired, held, hist>>

\* ----------------------------------------------------- admin bootstrap
\* env.initialAdmin: unset, or the configured username and password.
NoInitialAdmin == [set |-> FALSE, username |-> <<>>, password |-> ""]

defaultAdminAvatar == <<"/", "a", "d", "m", "i", "n", ".", "j", "p", "g">>

\* findUnique({ where: { username } }) in the table us.
FindIn(us, name) ==
  LET m == {i \in 1..Len(us) : us[i].username = name}
  IN  IF m = {} THEN 0 ELSE CHOOSE i \in m : TRUE

\* Variant of ensureInitialAdmin: an existing user is made the admin.
ensureInitialAdmin_Upsert(us, cfg) ==
  LET username == normalizeUsername(cfg.username)
      existing == FindIn(us, username)
  IN  IF ~cfg.set THEN us
      ELSE IF existing # 0
      THEN [us EXCEPT ![existing].role = "ADMIN",
                      ![existing].passwordHash = Argon2Hash(cfg.password)]
      ELSE Append(us, [id |-> Len(us) + 1, username |-> username,
                       passwordHash |-> Argon2Hash(cfg.password),
                       role |-> "ADMIN", lastLoginAt |-> 0,
                       avatarUrl |-> normalizeAvatarUrl(defaultAdminAvatar).url,
                       deleted |-> FALSE, was |-> <<>>])

\* ensureInitialAdmin: the user table it leaves.  It returns when nothing is
\* configured and when findUnique finds the normalized username (the warning
\* it logs changes nothing); otherwise it creates the ADMIN.
ensureInitialAdmin(us, cfg) ==
  LET username == normalizeUsername(cfg.username)
      existing == FindIn(us, username)
  IN  IF ~cfg.set THEN us
      ELSE IF existing # 0 THEN us
      ELSE Append(us, [id |-> Len(us) + 1, username |-> username,
                       passwordHash |-> Argon2Hash(cfg.password),
                       role |-> "ADMIN", lastLoginAt |-> 0,
                       avatarUrl |-> normalizeAvatarUrl(defaultAdminAvatar).url,
                       deleted |-> FALSE, was |-> <<>>])

\* start(): await ensureInitialAdmin() before server.listen, so no request
\* is in flight while it runs.  What it did is noted as the last event.
Bootstrap(cfg) ==
  /\ Quiet
  /\ \A q \in Procs : proc[q].pc = "idle"
  /\ users' = ensureInitialAdmin(users, cfg)
  /\ last' = [Idle EXCEPT !.op = "bootstrap", !.pc = "done",
                          !.username = normalizeUsername(cfg.username),
                          !.password = cfg.password,
                          !.wrote = (users' # users)]
  /\ UNCHANGED <<refreshTokens, expired, proc, held, hist>>

\* ----------------------------------------------------------- environment
\* The response has been sent.
Respond ==
  /\ ~Quiet
  /\ last' = NoResponse
  /\ UNCHANGED <<users, refreshTokens, expired, proc, held, hist>>

\* Time passes the expiresAt of the oldest row that had not expired.
Tick ==
  /\ Quiet
  /\ expired < Len(refreshTokens)
  /\ expired' = expired + 1
  /\ UNCHANGED <<users, refreshTokens, proc, last, held, hist>>

\* ------------------------------------------------------ realtime gateway
\* A handshake token that is not a string.
NonStringToken == [kind |-> "object", sub |-> 0, role |-> "USER", jti |-> 0]

\* socket.data.user before the middleware has set it.
NoUser == [id |-> 0, role |-> "USER", username |-> <<>>, avatarUrl |-> <<>>]

\* Variant of jwtVerifyAccess: one secret signs both kinds of token.
jwtVerifyAccess_OneSecret(tok, fresh) ==
  tok.kind \in {"access", "refresh"} /\ fresh

\* jwt.verify(token, env.jwtAccessSecret): signed with the access secret and
\* not past its exp (`fresh`).
jwtVerifyAccess(tok, fresh) ==
  tok.kind = "access" /\ fresh

\* requireAuth: err is the message of the HttpError(401) handed to next()
\* ("" when the request is passed on), user is req.user.  hasBearer: the
\* Authorization header is there and starts with "Bearer ".
requireAuth(hasBearer, tok, fresh) ==
  IF ~hasBearer
  THEN [err |-> "Missing Authorization Bearer token", id |-> 0, role |-> "USER"]
  ELSE IF ~jwtVerifyAccess(tok, fresh)
  THEN [err |-> "Invalid or expired access token", id |-> 0, role |-> "USER"]
  ELSE [err |-> "", id |-> tok.sub, role |-> tok.role]

\* A request to a protected route goes through requireAuth; what the
\* middleware decided is noted as the last event.
RequireAuth(hasBearer, tok, fresh) ==
  /\ Quiet
  /\ LET a == requireAuth(hasBearer, tok, fresh)
     IN  last' = [Idle EXCEPT !.op = "requireAuth", !.pc = "done", !.tok = tok,
                             !.status = IF a.err = "" THEN 0 ELSE 401,
                             !.message = a.err, !.user = a.id, !.role = a.role,
                             !.class = IF a.err = "" THEN "passed" ELSE "refused"]
  /\ UNCHANGED <<users, refreshTokens, expired, proc, held, hist>>

\* requireAdmin on req.user as requireAuth left it: the message of the
\* HttpError handed to next(), "" when the request is passed on.
requireAdmin(user) ==
  IF user.err # "" THEN "Missing auth context"
  ELSE IF user.role # "ADMIN" THEN "Admin access only"
  ELSE ""

\* How a handshake token stands when the connection attempt arrives.
HandshakeClass(tok, fresh) ==
  IF tok.kind = "none" THEN "missing"
  ELSE IF tok.kind = "object" THEN "nonstring"
  ELSE IF tok.kind # "access" THEN "badsig"
  ELSE IF ~fresh THEN "expired"
  ELSE IF tok.sub \notin 1..Len(users) THEN "nouser"
  ELSE "ok"

\* Variant of SocketAuth: the middleware goes on without the user row.
SocketAuth_NoUserCheck(tok, fresh, storeOk) ==
  LET u == FindUserById(tok.sub)
  IN  IF tok.kind = "none" \/ tok.kind = "object"
      THEN [err |-> "Missing access token", user |-> NoUser]
      ELSE IF ~jwtVerifyAccess(tok, fresh) \/ ~storeOk
      THEN [err |-> "Invalid or expired access token", user |-> NoUser]
      ELSE IF u = 0
      THEN [err |-> "", user |-> [NoUser EXCEPT !.id = tok.sub]]
      ELSE [err |-> "",
            user |-> [id |-> u, role |-> users[u].role,
                      username |-> users[u].username,
                      avatarUrl |-> users[u].avatarUrl]]

\* io.use: the socket auth middleware.  err is the Error handed to next()
\* ("" when the attempt is let through), user is socket.data.user.
SocketAuth(tok, fresh, storeOk) ==
  LET u == FindUserById(tok.sub)
  IN  IF tok.kind = "none" \/ tok.kind = "object"
      THEN [err |-> "Missing access token", user |-> NoUser]
      ELSE IF ~jwtVerifyAccess(tok, fresh) \/ ~storeOk
      THEN [err |-> "Invalid or expired access token", user |-> NoUser]
      ELSE IF u = 0
      THEN [err |-> "User not found", user |-> NoUser]
      ELSE [err |-> "",
            user |-> [id |-> u, role |-> users[u].role,
                      username |-> users[u].username,
                      avatarUrl |-> users[u].avatarUrl]]

\* buildPresencePayload over a presence map.
buildPresencePayload(map) ==
  {[id |-> u, username |-> map[u].username, avatarUrl |-> map[u].avatarUrl,
    connections |-> map[u].connections] : u \in DOMAIN map}

\* The sockets of the namespace: io.emit reaches exactly these.
OpenSockets == {s \in DOMAIN sockets : sockets[s].state = "open"}

\* io.emit(event, payload) to the sockets in `to`.
Emit(event, payload, to) ==
  Append(wire, [event |-> event, payload |-> payload, to |-> to])

\* Variant of PresenceAfterConnect: every connection writes the username and
\* the avatar it read.
PresenceAfterConnect_Rewrites(user) ==
  [u \in DOMAIN presence \cup {user.id} |->
     IF u = user.id
     THEN [username |-> user.username, avatarUrl |-> user.avatarUrl,
           connections |-> IF u \in DOMAIN presence
                           THEN presence[u].connections + 1 ELSE 1]
     ELSE presence[u]]

\* The connection handler's update of the map for `user`.
PresenceAfterConnect(user) ==
  [u \in DOMAIN presence \cup {user.id} |->
     IF u \in DOMAIN presence
     THEN IF u = user.id
          THEN [presence[u] EXCEPT !.connections = @ + 1]
          ELSE presence[u]
     ELSE [username |-> user.username, avatarUrl |-> user.avatarUrl,
           connections |-> 1]]

\* Variant of PresenceAfterDisconnect: the entry is deleted whatever its count.
PresenceAfterDisconnect_Deletes(userId) ==
  [u \in DOMAIN presence \ {userId} |-> presence[u]]

\* The disconnect handler's update of the map for userId.
PresenceAfterDisconnect(userId) ==
  IF userId \notin DOMAIN presence THEN presence
  ELSE LET nextCount == presence[userId].connections - 1
       IN  IF nextCount <= 0
           THEN [u \in DOMAIN presence \ {userId} |-> presence[u]]
           ELSE [presence EXCEPT ![userId].connections = nextCount]

\* History: one more run of the connection (k = 1) or disconnect (k = 2)
\* handler for user id u.
Tally(u) == IF u \in DOMAIN tally THEN tally[u] ELSE <<0, 0>>
TallyWith(u, k) ==
  [v \in DOMAIN tally \cup {u} |->
     IF v = u THEN [Tally(u) EXCEPT ![k] = @ + 1] ELSE tally[v]]

\* No attempt is being refused: a refused attempt is the last of `sockets`
\* until its error has been sent.
NoneRefused ==
  IF Len(sockets) = 0 THEN TRUE ELSE sockets[Len(sockets)].state # "rejected"

\* A connection attempt arrives and runs the middleware.  The attempt is
\* kept with what the middleware decided; class, kind, openedAt, closedAt (where
\* in `wire` the connection opened and closed, 0 when it has not) and dup
\* (a close signal came after the socket had closed) are history.
SocketHandshake(tok, fresh, storeOk) ==
  /\ NoneRefused
  /\ LET a == SocketAuth(tok, fresh, storeOk)
     IN  sockets' = Append(sockets,
           [user |-> a.user, err |-> a.err,
            state |-> IF a.err = "" THEN "pending" ELSE "rejected",
            class |-> HandshakeClass(tok, fresh), kind |-> tok.kind,
            dup |-> FALSE, openedAt |-> 0, closedAt |-> 0])
  /\ UNCHANGED <<presence, wire, trans, tally>>
  /\ UNCHANGED authVars

\* next(err): the attempt is answered with the error and dropped; the
\* connection handler never sees it.
SocketRefuse ==
  /\ ~NoneRefused
  /\ sockets' = SubSeq(sockets, 1, Len(sockets) - 1)
  /\ UNCHANGED <<presence, wire, trans, tally>>
  /\ UNCHANGED authVars

\* Variant of SocketConnection: the snapshot goes to the new socket only.
SocketConnection_EmitToSelf(s) ==
  /\ NoneRefused
  /\ s \in DOMAIN sockets
  /\ sockets[s].state = "pending"
  /\ LET user == sockets[s].user
         map == PresenceAfterConnect(user)
     IN  /\ presence' = map
         /\ wire' = Emit("presence:update", buildPresencePayload(map), {s})
         /\ trans' = Append(trans, map)
         /\ tally' = TallyWith(user.id, 1)
         /\ sockets' = [sockets EXCEPT ![s].state = "open",
                                       ![s].openedAt = Len(wire) + 1]
  /\ UNCHANGED authVars

\* Variant of SocketConnection: the snapshot is taken before the map changes.
SocketConnection_StaleSnapshot(s) ==
  /\ NoneRefused
  /\ s \in DOMAIN sockets
  /\ sockets[s].state = "pending"
  /\ LET user == sockets[s].user
         map == PresenceAfterConnect(user)
     IN  /\ presence' = map
         /\ wire' = Emit("presence:update", buildPresencePayload(presence),
                         OpenSockets \cup {s})
         /\ trans' = Append(trans, map)
         /\ tally' = TallyWith(user.id, 1)
         /\ sockets' = [sockets EXCEPT ![s].state = "open",
                                       ![s].openedAt = Len(wire) + 1]
  /\ UNCHANGED authVars

\* io.on("connection"): the socket has joined the namespace; the handler
\* counts it in the map and emits the snapshot to every socket, the new one
\* included.  The handler is synchronous: one step.
SocketConnection(s) ==
  /\ NoneRefused
  /\ s \in DOMAIN sockets
  /\ sockets[s].state = "pending"
  /\ LET user == sockets[s].user
         map == PresenceAfterConnect(user)
     IN  /\ presence' = map
         /\ wire' = Emit("presence:update", buildPresencePayload(map),
                         OpenSockets \cup {s})
         /\ trans' = Append(trans, map)
         /\ tally' = TallyWith(user.id, 1)
         /\ sockets' = [sockets EXCEPT ![s].state = "open",
                                       ![s].openedAt = Len(wire) + 1]
  /\ UNCHANGED authVars

\* The socket.on("disconnect") handler of socket s: the socket has left the
\* namespace when it runs.
DisconnectHandler(s) ==
  LET userId == sockets[s].user.id
      map == PresenceAfterDisconnect(userId)
  IN  /\ presence' = map
      /\ IF userId \notin DOMAIN presence
         THEN wire' = wire /\ trans' = trans
         ELSE /\ wire' = Emit("presence:update", buildPresencePayload(map),
                              OpenSockets \ {s})
              /\ trans' = Append(trans, map)
      /\ tally' = TallyWith(userId, 2)

\* Variant of SocketClose: the handler runs on every close signal.
SocketClose_EverySignal(s) ==
  /\ NoneRefused
  /\ s \in DOMAIN sockets
  /\ sockets[s].state \in {"open", "closed"}
  /\ DisconnectHandler(s)
  /\ sockets' = [sockets EXCEPT ![s].state = "closed",
                                ![s].dup = (sockets[s].state = "closed"),
                                ![s].closedAt = IF @ = 0 THEN Len(wire) + 1 ELSE @]
  /\ UNCHANGED authVars

\* A close signal for socket s.  socket.on("disconnect", handler): the
\* "disconnect" event is emitted once per socket, when it passes from
\* connected to disconnected, so the first signal runs the handler and a
\* further signal for the same socket finds it disconnected and runs nothing.
SocketClose(s) ==
  /\ NoneRefused
  /\ s \in DOMAIN sockets
  /\ sockets[s].state \in {"open", "closed"}
  /\ IF sockets[s].state = "open"
     THEN /\ DisconnectHandler(s)
          /\ sockets' = [sockets EXCEPT ![s].state = "closed",
                                        ![s].closedAt = Len(wire) + 1]
     ELSE /\ sockets' = [sockets EXCEPT ![s].dup = TRUE]
          /\ UNCHANGED <<presence, wire, trans, tally>>
  /\ UNCHANGED authVars

\* Variant of MessageBroadcast: sockets still in the handshake get it too.
MessageBroadcast_ToPending(event, id) ==
  /\ NoneRefused
  /\ wire' = Emit(event, id,
                  {s \in DOMAIN sockets : sockets[s].state \in {"open", "pending"}})
  /\ UNCHANGED <<presence, sockets, trans, tally>>
  /\ UNCHANGED authVars

\* getIO().emit("message:create" | "message:update" | "message:delete", ...):
\* the broadcast with which a message mutation ends.
MessageBroadcast(event, id) ==
  /\ NoneRefused
  /\ wire' = Emit(event, id, OpenSockets)
  /\ UNCHANGED <<presence, sockets, trans, tally>>
  /\ UNCHANGED authVars

\* ------------------------------------------------------------- messages
\* req.body.content: a string (a sequence of characters), nothing at all,
\* or a value that is not a string (a number other than 0).
Str(chars) == [kind |-> "string", chars |-> chars]
NoContent == [kind |-> "undefined", chars |-> <<>>]
NumberContent == [kind |-> "number", chars |-> <<>>]

\* !content
Falsy(content) ==
  content.kind = "undefined" \/ (content.kind = "string" /\ content.chars = <<>>)

\* content.trim()
TrimmedContent(content) == TrimEnd(TrimStart(content.chars))

\* createMessage's validation: the message of the HttpError(400), "" when
\* the content passes.
createMessageError(content) ==
  IF Falsy(content) \/ content.kind # "string" THEN "content is required"
  ELSE IF Len(TrimmedContent(content)) = 0 THEN "content cannot be empty"
  ELSE IF Len(TrimmedContent(content)) > MessageMaxLen THEN "content is too long"
  ELSE ""

\* A Message row: deleted is deletedAt # null.
MessageRow(id, authorId, content) ==
  [id |-> id, authorId |-> authorId, content |-> content, deleted |-> FALSE]

\* The message calls change nothing of the accounts, the sessions and the
\* presence map.
MessageFrame ==
  /\ UNCHANGED <<users, refreshTokens, expired, held, hist>>
  /\ UNCHANGED <<presence, sockets, trans, tally>>

\* How the message a call names stands when the call looks it up.
MessageClass(messageId) ==
  IF messageId \notin DOMAIN messages THEN "missing"
  ELSE IF messages[messageId].deleted THEN "deleted"
  ELSE "live"

\* POST /messages behind requireAuth: MessagesController.create and
\* createMessage up to the audit write: validation and message.create.
CreateMessageStart(p, tok, content, storeOk) ==
  /\ Quiet
  /\ proc[p].pc = "idle"
  /\ LET a == requireAuth(TRUE, tok, TRUE)
         id == Len(messages) + 1
         c == [Idle EXCEPT !.op = "createMessage", !.user = a.id, !.role = a.role]
         err == createMessageError(content)
     IN  IF err # ""
         THEN Goes(p, Thrown(c, 400, err)) /\ messages' = messages
         ELSE IF ~storeOk
         THEN Goes(p, InternalError(c)) /\ messages' = messages
         ELSE /\ messages' = Append(messages,
                               MessageRow(id, a.id, TrimmedContent(content)))
              /\ Goes(p, [c EXCEPT !.pc = "msg_audit", !.target = id,
                                   !.content = TrimmedContent(content),
                                   !.wrote = TRUE])
  /\ wire' = wire
  /\ MessageFrame

\* Variant of CreateMessageFinish: the broadcast is sent twice.
CreateMessageFinish_EmitsTwice(p, auditOk) ==
  /\ Quiet
  /\ proc[p].op = "createMessage"
  /\ proc[p].pc = "msg_audit"
  /\ LET c == proc[p]
         payload == [id |-> c.target, content |-> c.content, authorId |-> c.user]
     IN  /\ wire' = Append(Emit("message:create", payload, OpenSockets),
                           [event |-> "message:create", payload |-> payload,
                            to |-> OpenSockets])
         /\ Goes(p, [c EXCEPT !.pc = "done", !.status = 201])
  /\ messages' = messages
  /\ MessageFrame

\* createMessage from the audit write on: AuditService.log MESSAGE_CREATE,
\* then the broadcast, then 201 with the message as message.create
\* returned it.
CreateMessageFinish(p, auditOk) ==
  /\ Quiet
  /\ proc[p].op = "createMessage"
  /\ proc[p].pc = "msg_audit"
  /\ LET c == proc[p]
         payload == [id |-> c.target, content |-> c.content, authorId |-> c.user]
         row == AuditRow(c.user, "MESSAGE_CREATE", "Message", c.target, "", <<>>)
     IN  IF auditOk
         THEN /\ wire' = Emit("message:create", payload, OpenSockets)
              /\ Goes(p, [c EXCEPT !.pc = "done", !.status = 201,
                                   !.emitted = Append(@, row)])
         ELSE /\ wire' = wire
              /\ Goes(p, InternalError([c EXCEPT !.auditFailed = TRUE]))
  /\ messages' = messages
  /\ MessageFrame

\* The newest `limit` rows of `rows`, oldest first: orderBy createdAt desc,
\* take, then reverse.
TakeNewest(rows, limit) ==
  IF Len(rows) <= limit THEN rows
  ELSE SubSeq(rows, Len(rows) - limit + 1, Len(rows))

\* Math.min(Math.max(params.limit ?? 50, 1), 200); <<>> is no limit given.
ListLimit(limit) ==
  LET asked == IF limit = <<>> THEN DefaultListLimit ELSE limit[1]
      atLeast == IF asked > MinListLimit THEN asked ELSE MinListLimit
  IN  IF atLeast < MaxListLimit THEN atLeast ELSE MaxListLimit

\* listMessages without search and date filters: where deletedAt is null.
listMessages(limit) ==
  TakeNewest(SelectSeq(messages, LAMBDA m : ~m.deleted), ListLimit(limit))

\* GET /messages behind requireAuth: the list is read in one query and
\* answered.
ListMessages(tok, limit, storeOk) ==
  /\ Quiet
  /\ LET a == requireAuth(TRUE, tok, TRUE)
         c == [Idle EXCEPT !.op = "listMessages", !.user = a.id, !.role = a.role]
     IN  last' = IF storeOk
                 THEN [c EXCEPT !.pc = "done", !.status = 200,
                                !.listed = listMessages(limit)]
                 ELSE InternalError(c)
  /\ UNCHANGED <<proc, messages, wire>>
  /\ MessageFrame

\* Variant of UpdateMessageStart: the ownership check is left out.
UpdateMessageStart_AnyRequester(p, tok, messageId, content, storeOk) ==
  /\ Quiet
  /\ proc[p].pc = "idle"
  /\ LET a == requireAuth(TRUE, tok, TRUE)
         c == [Idle EXCEPT !.op = "updateMessage", !.user = a.id,
                           !.role = a.role, !.target = messageId]
         found == [c EXCEPT !.class = MessageClass(messageId)]
     IN  IF Falsy(content)
         THEN Goes(p, Thrown(c, 400, "content cannot be empty"))
         ELSE IF content.kind # "string"
         THEN Goes(p, InternalError(c))
         ELSE IF Len(TrimmedContent(content)) = 0
         THEN Goes(p, Thrown(c, 400, "content cannot be empty"))
         ELSE IF ~storeOk
         THEN Goes(p, InternalError(c))
         ELSE IF MessageClass(messageId) # "live"
         THEN Goes(p, Thrown(found, 404, "message not found"))
         ELSE Goes(p, [found EXCEPT !.pc = "msg_update",
                                    !.content = TrimmedContent(content)])
  /\ UNCHANGED <<messages, wire>>
  /\ MessageFrame

\* PUT /messages/:id behind requireAuth: MessagesController.update and
\* updateMessage up to message.update: validation (a content that is not a
\* string has no trim and throws a TypeError), findUnique, 404, 403.
UpdateMessageStart(p, tok, messageId, content, storeOk) ==
  /\ Quiet
  /\ proc[p].pc = "idle"
  /\ LET a == requireAuth(TRUE, tok, TRUE)
         c == [Idle EXCEPT !.op = "updateMessage", !.user = a.id,
                           !.role = a.role, !.target = messageId]
         found == [c EXCEPT !.class = MessageClass(messageId)]
     IN  IF Falsy(content)
         THEN Goes(p, Thrown(c, 400, "content cannot be empty"))
         ELSE IF content.kind # "string"
         THEN Goes(p, InternalError(c))
         ELSE IF Len(TrimmedContent(content)) = 0
         THEN Goes(p, Thrown(c, 400, "content cannot be empty"))
         ELSE IF ~storeOk
         THEN Goes(p, InternalError(c))
         ELSE IF MessageClass(messageId) # "live"
         THEN Goes(p, Thrown(found, 404, "message not found"))
         ELSE IF messages[messageId].authorId # a.id
         THEN Goes(p, Thrown(found, 403, "you can only edit your own messages"))
         ELSE Goes(p, [found EXCEPT !.pc = "msg_update",
                                    !.content = TrimmedContent(content)])
  /\ UNCHANGED <<messages, wire>>
  /\ MessageFrame

\* message.update where id: the content is written whatever deletedAt is.
UpdateMessageUpdate(p, storeOk) ==
  /\ Quiet
  /\ proc[p].op = "updateMessage"
  /\ proc[p].pc = "msg_update"
  /\ LET c == proc[p]
     IN  IF storeOk
         THEN /\ messages' = [messages EXCEPT ![c.target].content = c.content]
              /\ Goes(p, [c EXCEPT !.pc = "msg_audit", !.wrote = TRUE])
         ELSE /\ messages' = messages
              /\ Goes(p, InternalError(c))
  /\ wire' = wire
  /\ MessageFrame

\* updateMessage from the audit write on: MESSAGE_UPDATE, the broadcast of
\* the row as message.update returned it, 200.
UpdateMessageFinish(p, auditOk) ==
  /\ Quiet
  /\ proc[p].op = "updateMessage"
  /\ proc[p].pc = "msg_audit"
  /\ LET c == proc[p]
         payload == [id |-> c.target, content |-> c.content, authorId |-> c.user]
         row == AuditRow(c.user, "MESSAGE_UPDATE", "Message", c.target, "", <<>>)
     IN  IF auditOk
         THEN /\ wire' = Emit("message:update", payload, OpenSockets)
              /\ Goes(p, [c EXCEPT !.pc = "done", !.status = 200,
                                   !.emitted = Append(@, row)])
         ELSE /\ wire' = wire
              /\ Goes(p, InternalError([c EXCEPT !.auditFailed = TRUE]))
  /\ messages' = messages
  /\ MessageFrame

\* DELETE /messages/:id behind requireAuth: MessagesController.remove and
\* deleteMessage up to message.update: findUnique, 404, 403.  requesterRole
\* is req.user.role, the role claim of the access token.
DeleteMessageStart(p, tok, messageId, storeOk) ==
  /\ Quiet
  /\ proc[p].pc = "idle"
  /\ LET a == requireAuth(TRUE, tok, TRUE)
         c == [Idle EXCEPT !.op = "deleteMessage", !.user = a.id,
                           !.role = a.role, !.target = messageId]
         found == [c EXCEPT !.class = MessageClass(messageId)]
     IN  IF ~storeOk
         THEN Goes(p, InternalError(c))
         ELSE IF MessageClass(messageId) # "live"
         THEN Goes(p, Thrown(found, 404, "message not found"))
         ELSE IF messages[messageId].authorId # a.id /\ a.role # "ADMIN"
         THEN Goes(p, Thrown(found, 403, "you can only delete your own messages"))
         ELSE Goes(p, [found EXCEPT !.pc = "msg_delete"])
  /\ UNCHANGED <<messages, wire>>
  /\ MessageFrame

\* message.update where id, data deletedAt: the soft delete.
DeleteMessageUpdate(p, storeOk) ==
  /\ Quiet
  /\ proc[p].op = "deleteMessage"
  /\ proc[p].pc = "msg_delete"
  /\ LET c == proc[p]
     IN  IF storeOk
         THEN /\ messages' = [messages EXCEPT ![c.target].deleted = TRUE]
              /\ Goes(p, [c EXCEPT !.pc = "msg_audit", !.wrote = TRUE])
         ELSE /\ messages' = messages
              /\ Goes(p, InternalError(c))
  /\ wire' = wire
  /\ MessageFrame

\* deleteMessage from the audit write on: MESSAGE_DELETE or
\* ADMIN_MESSAGE_DELETE, the broadcast of the id, 204.
DeleteMessageFinish(p, auditOk) ==
  /\ Quiet
  /\ proc[p].op = "deleteMessage"
  /\ proc[p].pc = "msg_audit"
  /\ LET c == proc[p]
         action == IF c.role = "ADMIN" THEN "ADMIN_MESSAGE_DELETE"
                   ELSE "MESSAGE_DELETE"
         row == AuditRow(c.user, action, "Message", c.target, "", <<>>)
     IN  IF auditOk
         THEN /\ wire' = Emit("message:delete", [id |-> c.target], OpenSockets)
              /\ Goes(p, [c EXCEPT !.pc = "done", !.status = 204,
                                   !.emitted = Append(@, row)])
         ELSE /\ wire' = wire
              /\ Goes(p, InternalError([c EXCEPT !.auditFailed = TRUE]))
  /\ messages' = messages
  /\ MessageFrame

\* ---------------------------------------------------- cookies and paths
\* A path is the sequence of its segments; app.use("/auth", authRoutes).
LoginPath == <<"auth", "login">>
RefreshPath == <<"auth", "refresh">>
LogoutPath == <<"auth", "logout">>

REFRESH_COOKIE_NAME == "refresh_token"
CSRF_COOKIE_NAME == "XSRF-TOKEN"

\* The path "/" of the CSRF cookie.
RootPath == <<>>

\* issueCsrfToken: crypto.randomBytes(32), a value nobody else has; n tells
\* the values issued apart.
issueCsrfToken(n) == [kind |-> "csrf", sub |-> 0, role |-> "USER", jti |-> n]

\* The browser's rule for sending a cookie with a request: the cookie's path
\* is the request path or a directory above it.
PathMatch(requestPath, cookiePath) ==
  /\ Len(cookiePath) <= Len(requestPath)
  /\ SubSeq(requestPath, 1, Len(cookiePath)) = cookiePath

\* setRefreshCookie: res.cookie(REFRESH_COOKIE_NAME, token,
\* { path: "/auth/refresh", ... }).  The browser keeps one cookie per name
\* and path.
WithCookie(cookies, name, value, path) ==
  {ck \in cookies : ~(ck.name = name /\ ck.path = path)}
    \cup {[name |-> name, value |-> value, path |-> path]}

setRefreshCookie(cookies, token) ==
  WithCookie(cookies, REFRESH_COOKIE_NAME, token, RefreshPath)

\* res.clearCookie(name, { path }): the browser drops the cookie of that
\* name and path.
clearCookie(cookies, name, path) ==
  {ck \in cookies : ~(ck.name = name /\ ck.path = path)}

\* setCsrfCookie: res.cookie(CSRF_COOKIE_NAME, token, { path: "/", ... })
setCsrfCookie(cookies, token) ==
  WithCookie(cookies, CSRF_COOKIE_NAME, token, RootPath)

\* req.cookies?.[CSRF_COOKIE_NAME] of a request to requestPath; NoToken is
\* undefined.
CsrfCookie(requestPath) ==
  LET sent == {ck \in jar : ck.name = CSRF_COOKIE_NAME
                              /\ PathMatch(requestPath, ck.path)}
  IN  IF sent = {} THEN NoToken ELSE (CHOOSE ck \in sent : TRUE).value

\* Variant of assertValidCsrf: only the cookie is looked at.
assertValidCsrf_CookieOnly(cookieToken, headerToken) ==
  ~(cookieToken = NoToken)

\* assertValidCsrf does not throw: the cookie and the header are both there
\* and equal.
assertValidCsrf(cookieToken, headerToken) ==
  ~(cookieToken = NoToken \/ headerToken = NoToken \/ cookieToken # headerToken)

\* req.cookies?.[REFRESH_COOKIE_NAME] of a request to requestPath that
\* carries the cookies of the jar that apply to that path.
RequestCookie(requestPath) ==
  LET sent == {ck \in jar : ck.name = REFRESH_COOKIE_NAME
                              /\ PathMatch(requestPath, ck.path)}
  IN  IF sent = {} THEN NoToken ELSE (CHOOSE ck \in sent : TRUE).value

\* The call at slot p is being answered in this step.
Answers(p, op) == last' # last /\ last'.op = op

\* POST /auth/login through AuthController.login: the service call, and on
\* success the Set-Cookie the browser stores.
HttpLoginFinish(p) ==
  /\ LoginFinish(p, TRUE)
  /\ jar' = IF Answers(p, "login") /\ last'.status = 200
            THEN setCsrfCookie(setRefreshCookie(jar, last'.out),
                               issueCsrfToken(last'.out.jti))
            ELSE jar

\* POST /auth/refresh through AuthController.refresh: the token is read from
\* the cookie; on success the cookie is rotated.
HttpRefreshStart(p) ==
  /\ RefreshStart(p, RequestCookie(RefreshPath), "none")
  /\ jar' = jar

HttpRefreshFinish(p) ==
  /\ RefreshFinish(p, TRUE)
  /\ jar' = IF Answers(p, "refresh") /\ last'.status = 200
            THEN setCsrfCookie(setRefreshCookie(jar, last'.out),
                               issueCsrfToken(last'.out.jti))
            ELSE jar

\* POST /auth/logout through AuthController.logout: the token is read from
\* the cookie, and once the service call has returned the refresh cookie is
\* cleared with path "/auth/refresh" and the CSRF cookie with path "/".
\* A logout call that carries what the browser sends to /auth/logout.
FromBrowser(c) == c.op = "logout" /\ c.tok = RequestCookie(LogoutPath)

LogoutCleared ==
  IF last' # last /\ FromBrowser(last')
  THEN clearCookie(clearCookie(jar, REFRESH_COOKIE_NAME, RefreshPath),
                   CSRF_COOKIE_NAME, RootPath)
  ELSE jar

HttpLogoutStart(p) ==
  /\ LogoutStart(p, RequestCookie(LogoutPath), TRUE)
  /\ jar' = LogoutCleared

HttpLogoutRevoke(p) ==
  /\ LogoutRevoke(p, TRUE)
  /\ jar' = LogoutCleared

HttpLogoutFinish(p) ==
  /\ LogoutFinish(p, TRUE)
  /\ jar' = LogoutCleared

\* --------------------------------------------------------- rate limiter
\* The options of the two limiters of authRoutes.
Limiters ==
  [login |-> [windowMs |-> LoginWindowMs, max |-> LoginMax,
              message |-> "Too many login attempts. Please wait before retrying."],
   refresh |-> [windowMs |-> RefreshWindowMs, max |-> RefreshMax,
                message |-> "Too many refresh attempts. Please slow down."]]

\* Date.now()
Now == clock[Len(clock)]

\* req.ip || "unknown"
ClientKey(ip) == IF ip = "" THEN "unknown" ELSE ip

\* History: one more request of `key` passed on by limiter l at Now.
AdmittedWith(l, key) ==
  LET k == <<key, Now>>
      a == admitted[l]
  IN  [admitted EXCEPT ![l] =
         [j \in DOMAIN a \cup {k} |->
            IF j = k THEN (IF k \in DOMAIN a THEN a[k] + 1 ELSE 1) ELSE a[j]]]

\* The middleware rateLimit(options) returns, for a request from ip to the
\* route of limiter l.  A missing bucket or one whose resetAt lies before
\* now is replaced by a new one with count 1; a bucket at max answers 429
\* through next(err), so the controller is not reached; otherwise the count
\* goes up and the request is passed on.  What was decided is noted as the
\* last event.
RateLimit(l, ip) ==
  /\ Quiet
  /\ LET key == ClientKey(ip)
         store == buckets[l]
         o == Limiters[l]
         seen == [Idle EXCEPT !.op = l, !.pc = "done"]
     IN  IF key \notin DOMAIN store \/ store[key].resetAt < Now
         THEN /\ buckets' = [buckets EXCEPT ![l] =
                   [j \in DOMAIN store \cup {key} |->
                      IF j = key THEN [count |-> 1, resetAt |-> Now + o.windowMs]
                      ELSE store[j]]]
              /\ admitted' = AdmittedWith(l, key)
              /\ last' = [seen EXCEPT !.class = "passed"]
         ELSE IF store[key].count >= o.max
         THEN /\ buckets' = buckets
              /\ admitted' = admitted
              /\ last' = [seen EXCEPT !.class = "refused", !.status = 429,
                                      !.message = o.message]
         ELSE /\ buckets' = [buckets EXCEPT ![l][key].count = @ + 1]
              /\ admitted' = AdmittedWith(l, key)
              /\ last' = [seen EXCEPT !.class = "passed"]
  /\ UNCHANGED <<jar, clock>>
  /\ UNCHANGED <<users, refreshTokens, expired, proc, held, hist>>

\* Time passes: d ms later the limiters are looked at again.
ClockTick(d) ==
  /\ Quiet
  /\ clock' = Append(clock, Now + d)
  /\ UNCHANGED <<jar, buckets, admitted>>
  /\ UNCHANGED authVars

\* --------------------------------------------------------------- routes
\* rateLimit's test of the bucket of `key`: it is renewed, or it is full.
BucketRenewed(l, key) ==
  key \notin DOMAIN buckets[l] \/ buckets[l][key].resetAt < Now

BucketFull(l, key) ==
  ~BucketRenewed(l, key) /\ buckets[l][key].count >= Limiters[l].max

\* The store of limiter l after a request of `key` it passes on.
BucketsAfter(l, key) ==
  IF BucketRenewed(l, key)
  THEN [buckets EXCEPT ![l] =
          [j \in DOMAIN buckets[l] \cup {key} |->
             IF j = key THEN [count |-> 1, resetAt |-> Now + Limiters[l].windowMs]
             ELSE buckets[l][j]]]
  ELSE [buckets EXCEPT ![l][key].count = @ + 1]

\* What a client puts in the x-xsrf-token header: nothing, the value of the
\* XSRF-TOKEN cookie it holds, or a value of its own.
HeaderKinds == {"absent", "echo", "forged"}
ForgedCsrf == issueCsrfToken(0)

\* POST /auth/refresh up to the first await of the service: refreshLimiter,
\* then AuthController.refresh with assertValidCsrf, the refresh cookie and
\* AuthService.refresh up to the matched row.
RouteRefreshStart(p, ip, headerKind) ==
  /\ Quiet
  /\ proc[p].pc = "idle"
  /\ LET key == ClientKey(ip)
         cookieToken == CsrfCookie(RefreshPath)
         headerToken == CASE headerKind = "absent" -> NoToken
                          [] headerKind = "echo" -> cookieToken
                          [] OTHER -> ForgedCsrf
         refreshToken == RequestCookie(RefreshPath)
         req == [Idle EXCEPT !.op = "refresh", !.tok = refreshToken,
                             !.cookieToken = cookieToken,
                             !.headerToken = headerToken]
     IN  IF BucketFull("refresh", key)
         THEN /\ buckets' = buckets
              /\ admitted' = admitted
              /\ Goes(p, Thrown(req, 429, Limiters["refresh"].message))
         ELSE /\ buckets' = BucketsAfter("refresh", key)
              /\ admitted' = AdmittedWith("refresh", key)
              /\ Goes(p, IF ~assertValidCsrf(cookieToken, headerToken)
                         THEN Thrown(req, 403, "CSRF token mismatch")
                         ELSE [RefreshArrives(refreshToken, "none") EXCEPT
                                 !.cookieToken = cookieToken,
                                 !.headerToken = headerToken])
  /\ UNCHANGED <<jar, clock>>
  /\ UNCHANGED <<users, refreshTokens, expired, held, hist>>

\* ------------------------------------------------------ specifications
\* A refresh token signed with the server's secret for user 1 whose row is
\* not in the table.
UnstoredToken == signRefreshToken([id |-> 1, role |-> "USER"], 0)

AnnInput == <<" ", "A", "n", "n">>
UnknownName == <<"c", "a", "t">>
UsernameInputs == {AnnInput, UnknownName}
PasswordInputs == {AnnPassword, "guess"}
TokenInputs == held \cup {NoToken, GarbageToken, UnstoredToken}

\* The table has room for one more row.
Room == Len(refreshTokens) < MaxRows

\* The ids of the user table.
UserIds == 1..Len(users)

\* Spec: requests overlap.  The store and the audit sink work, except that
\* the update that revokes the old row of a refresh may fail.
Next ==
  /\ \/ \E p \in Procs, u \in UsernameInputs, w \in PasswordInputs :
          LoginStart(p, u, w, "none")
     \/ \E p \in Procs : Room /\ LoginCreate(p, TRUE)
     \/ \E p \in Procs : LoginLastLogin(p, TRUE)
     \/ \E p \in Procs : LoginFinish(p, TRUE)
     \/ \E p \in Procs, t \in TokenInputs : RefreshStart(p, t, "none")
     \/ \E p \in Procs : RefreshFindUser(p, "none")
     \/ \E p \in Procs : Room /\ RefreshCreate(p, TRUE)
     \/ \E p \in Procs, ok \in BOOLEAN : RefreshRevoke(p, ok)
     \/ \E p \in Procs : RefreshFinish(p, TRUE)
     \/ \E p \in Procs, t \in TokenInputs : LogoutStart(p, t, TRUE)
     \/ \E p \in Procs : LogoutRevoke(p, TRUE)
     \/ \E p \in Procs : LogoutFinish(p, TRUE)
     \/ Respond
     \/ expired < MaxExpired /\ Tick
  /\ UNCHANGED <<presVars, webVars, messages>>

Spec == Init /\ [][Next]_vars

\* SeqSpec: one request at a time.  Every store call and every audit write
\* may fail.
NoneInFlight == \A q \in Procs : proc[q].pc = "idle"

SeqNext ==
  /\ \/ \E u \in UsernameInputs, w \in PasswordInputs, f \in Faults :
          NoneInFlight /\ LoginStart(1, u, w, f)
     \/ \E ok \in BOOLEAN : Room /\ LoginCreate(1, ok)
     \/ \E ok \in BOOLEAN : LoginLastLogin(1, ok)
     \/ \E auditOk \in BOOLEAN : LoginFinish(1, auditOk)
     \/ \E t \in TokenInputs, f \in Faults : NoneInFlight /\ RefreshStart(1, t, f)
     \/ \E f \in Faults : RefreshFindUser(1, f)
     \/ \E ok \in BOOLEAN : Room /\ RefreshCreate(1, ok)
     \/ \E ok \in BOOLEAN : RefreshRevoke(1, ok)
     \/ \E auditOk \in BOOLEAN : RefreshFinish(1, auditOk)
     \/ \E t \in TokenInputs, ok \in BOOLEAN : NoneInFlight /\ LogoutStart(1, t, ok)
     \/ \E ok \in BOOLEAN : LogoutRevoke(1, ok)
     \/ \E auditOk \in BOOLEAN : LogoutFinish(1, auditOk)
     \/ Respond
     \/ expired < MaxExpired /\ Tick
  /\ UNCHANGED <<presVars, webVars, messages>>

SeqSpec == Init /\ [][SeqNext]_vars

\* SessSpec: one user with many sessions.  The run starts after LogoutTake
\* logins of user 1 from as many devices; requests arrive one at a time,
\* nothing fails and nothing expires.  The devices present the oldest
\* session's token or the newest session still open.
Ann == [id |-> 1, role |-> "USER"]

SessInit ==
  /\ users = [InitialUsers EXCEPT ![1].lastLoginAt = LogoutTake]
  /\ refreshTokens = [i \in 1..LogoutTake |-> NewRow(1, signRefreshToken(Ann, i), 0)]
  /\ expired = 0
  /\ proc = [p \in Procs |-> Idle]
  /\ last = NoResponse
  /\ held = {signRefreshToken(Ann, i) : i \in 1..LogoutTake}
  /\ hist = [j \in {} |-> NoHist]
  /\ PresenceInit
  /\ WebInit
  /\ messages = <<>>

Open == {i \in RowIds : ~refreshTokens[i].revoked}

SessTokenInputs ==
  {t \in held : RowOf(t) = 1 \/ (RowOf(t) \in Open /\ \A j \in Open : j <= RowOf(t))}

SessRoom == Len(refreshTokens) < LogoutTake + 2

SessNext ==
  /\ \/ NoneInFlight /\ LoginStart(1, AnnInput, AnnPassword, "none")
     \/ SessRoom /\ LoginCreate(1, TRUE)
     \/ LoginLastLogin(1, TRUE)
     \/ LoginFinish(1, TRUE)
     \/ \E t \in SessTokenInputs : NoneInFlight /\ RefreshStart(1, t, "none")
     \/ RefreshFindUser(1, "none")
     \/ SessRoom /\ RefreshCreate(1, TRUE)
     \/ RefreshRevoke(1, TRUE)
     \/ RefreshFinish(1, TRUE)
     \/ \E t \in SessTokenInputs : NoneInFlight /\ LogoutStart(1, t, TRUE)
     \/ LogoutRevoke(1, TRUE)
     \/ LogoutFinish(1, TRUE)
     \/ Respond
  /\ UNCHANGED <<presVars, webVars, messages>>

SessSpec == SessInit /\ [][SessNext]_vars

\* UserSpec: accounts come and go.  One request at a time, nothing fails:
\* Register, Login, Refresh, Logout, and Bob the admin changing roles and
\* deleting users.
ShortName == <<"a", "b">>
PaddedName == <<" ", "a", " ">>
BadAvatar == <<"f", "t", "p", ":">>
RegisterNames == {AnnInput, ShortName, PaddedName}
AvatarInputs == {<<>>, BadAvatar}
RoleInputs == {"USER", "ADMIN", "ROOT"}
Admin == 2

UserRoom == Len(users) < MaxUsers

UserNext ==
  /\ \/ \E u \in RegisterNames, w \in PasswordInputs, a \in AvatarInputs :
          NoneInFlight /\ RegisterStart(1, u, w, a, TRUE)
     \/ UserRoom /\ RegisterCreate(1, TRUE)
     \/ RegisterFinish(1, TRUE)
     \/ \E u \in UsernameInputs, w \in PasswordInputs :
          NoneInFlight /\ LoginStart(1, u, w, "none")
     \/ Room /\ LoginCreate(1, TRUE)
     \/ LoginLastLogin(1, TRUE)
     \/ LoginFinish(1, TRUE)
     \/ \E t \in TokenInputs : NoneInFlight /\ RefreshStart(1, t, "none")
     \/ RefreshFindUser(1, "none")
     \/ Room /\ RefreshCreate(1, TRUE)
     \/ RefreshRevoke(1, TRUE)
     \/ RefreshFinish(1, TRUE)
     \/ \E t \in TokenInputs : NoneInFlight /\ LogoutStart(1, t, TRUE)
     \/ LogoutRevoke(1, TRUE)
     \/ LogoutFinish(1, TRUE)
     \/ \E u \in UserIds, r \in RoleInputs :
          NoneInFlight /\ UpdateRoleStart(1, u, r, Admin, TRUE)
     \/ UpdateRoleUpdate(1, TRUE)
     \/ UpdateRoleFinish(1, TRUE)
     \/ \E u \in UserIds : NoneInFlight /\ DeleteUserStart(1, u, Admin, TRUE)
     \/ DeleteUserTransaction(1, TRUE)
     \/ DeleteUserFinish(1, TRUE)
     \/ Respond
  /\ UNCHANGED <<presVars, webVars, messages>>

UserSpec == Init /\ [][UserNext]_vars

\* RegSpec: Register calls overlap with each other and with the deletion of
\* a user.  The store and the audit sink work; two of the usernames typed
\* normalize to the same new name.
CatName == <<"C", "a", "t">>
CatPadded == <<"c", "a", "t", " ">>
RaceNames == {AnnInput, CatName, CatPadded}

\* A create goes on when the table has room, or when the store will refuse
\* it anyway.
CreateRoom(p) == UserRoom \/ FindUserByUsername(proc[p].username) # 0

RegNext ==
  /\ \/ \E p \in Procs, u \in RaceNames :
          RegisterStart(p, u, AnnPassword, <<>>, TRUE)
     \/ \E p \in Procs : CreateRoom(p) /\ RegisterCreate(p, TRUE)
     \/ \E p \in Procs : RegisterFinish(p, TRUE)
     \/ \E p \in Procs, u \in UserIds : DeleteUserStart(p, u, Admin, TRUE)
     \/ \E p \in Procs : DeleteUserTransaction(p, TRUE)
     \/ \E p \in Procs : DeleteUserFinish(p, TRUE)
     \/ Respond
  /\ UNCHANGED <<presVars, webVars, messages>>

RegSpec == Init /\ [][RegNext]_vars

\* DelSpec: Bob deletes a user while that user's session is in use.  Ann
\* logs in and refreshes on one slot; the deletion runs on the other and
\* may fall between any two steps of a refresh.  Nothing fails.
DelNext ==
  /\ \/ LoginStart(1, AnnInput, AnnPassword, "none")
     \/ Room /\ LoginCreate(1, TRUE)
     \/ LoginLastLogin(1, TRUE)
     \/ LoginFinish(1, TRUE)
     \/ \E t \in held : RefreshStart(1, t, "none")
     \/ RefreshFindUser(1, "none")
     \/ Room /\ RefreshCreate(1, TRUE)
     \/ RefreshRevoke(1, TRUE)
     \/ RefreshFinish(1, TRUE)
     \/ \E u \in UserIds : DeleteUserStart(2, u, Admin, TRUE)
     \/ DeleteUserTransaction(2, TRUE)
     \/ DeleteUserFinish(2, TRUE)
     \/ Respond
  /\ UNCHANGED <<presVars, webVars, messages>>

DelSpec == Init /\ [][DelNext]_vars

\* CookieSpec: one browser that keeps the refresh token only in the cookie
\* the server set.  It logs in, refreshes and logs out, one request at a
\* time; nothing fails.  Next to it a client that is not a browser posts
\* tokens it was given to /auth/logout in a Cookie header it writes itself.
CookieNext ==
  /\ \/ \E w \in PasswordInputs :
          NoneInFlight /\ LoginStart(1, AnnInput, w, "none") /\ jar' = jar
     \/ Room /\ LoginCreate(1, TRUE) /\ jar' = jar
     \/ LoginLastLogin(1, TRUE) /\ jar' = jar
     \/ HttpLoginFinish(1)
     \/ NoneInFlight /\ HttpRefreshStart(1)
     \/ RefreshFindUser(1, "none") /\ jar' = jar
     \/ Room /\ RefreshCreate(1, TRUE) /\ jar' = jar
     \/ RefreshRevoke(1, TRUE) /\ jar' = jar
     \/ HttpRefreshFinish(1)
     \/ NoneInFlight /\ HttpLogoutStart(1)
     \/ \E t \in held : NoneInFlight /\ LogoutStart(1, t, TRUE) /\ jar' = jar
     \/ HttpLogoutRevoke(1)
     \/ HttpLogoutFinish(1)
     \/ Respond /\ jar' = jar
  /\ UNCHANGED <<presVars, limVars, messages>>

CookieSpec == Init /\ [][CookieNext]_vars

\* BootSpec: the server is restarted between requests, with an initial
\* admin configured or not; Register, updateRole and deleteUser run one at a
\* time in between, so the configured name may be free, taken by a USER,
\* taken by an ADMIN, or freed by a deletion.
AdminInput == <<"A", "d", "m", "i", "n", " ">>
BootConfigs ==
  {NoInitialAdmin,
   [set |-> TRUE, username |-> AdminInput, password |-> "change-me"],
   [set |-> TRUE, username |-> AnnInput, password |-> "change-me"]}

BootNext ==
  /\ \/ \E cfg \in BootConfigs :
          (UserRoom \/ FindIn(users, normalizeUsername(cfg.username)) # 0)
            /\ Bootstrap(cfg)
     \/ \E u \in {AnnInput, AdminInput} :
          NoneInFlight /\ RegisterStart(1, u, AnnPassword, <<>>, TRUE)
     \/ UserRoom /\ RegisterCreate(1, TRUE)
     \/ RegisterFinish(1, TRUE)
     \/ \E u \in UserIds, r \in Roles :
          NoneInFlight /\ UpdateRoleStart(1, u, r, Admin, TRUE)
     \/ UpdateRoleUpdate(1, TRUE)
     \/ UpdateRoleFinish(1, TRUE)
     \/ \E u \in UserIds : NoneInFlight /\ DeleteUserStart(1, u, Admin, TRUE)
     \/ DeleteUserTransaction(1, TRUE)
     \/ DeleteUserFinish(1, TRUE)
     \/ Respond
  /\ UNCHANGED <<presVars, webVars, messages>>

BootSpec == Init /\ [][BootNext]_vars

\* KindSpec: every token the server has signed is tried at every door.
\* Ann logs in and refreshes; the refresh tokens released and the access
\* tokens of both users are presented, one request at a time, to Refresh,
\* to Logout, to requireAuth and to the realtime handshake.  Nothing fails.
KindTokens ==
  held \cup {signAccessToken([id |-> i, role |-> InitialUsers[i].role]) : i \in {1, 2}}
       \cup {NoToken, GarbageToken, UnstoredToken}

KindNext ==
  \/ /\ \/ NoneInFlight /\ LoginStart(1, AnnInput, AnnPassword, "none")
        \/ Room /\ LoginCreate(1, TRUE)
        \/ LoginLastLogin(1, TRUE)
        \/ LoginFinish(1, TRUE)
        \/ \E t \in KindTokens : NoneInFlight /\ RefreshStart(1, t, "none")
        \/ RefreshFindUser(1, "none")
        \/ Room /\ RefreshCreate(1, TRUE)
        \/ RefreshRevoke(1, TRUE)
        \/ RefreshFinish(1, TRUE)
        \/ \E t \in KindTokens : NoneInFlight /\ LogoutStart(1, t, TRUE)
        \/ LogoutRevoke(1, TRUE)
        \/ LogoutFinish(1, TRUE)
        \/ \E b \in BOOLEAN, t \in KindTokens, fresh \in BOOLEAN :
             NoneInFlight /\ RequireAuth(b, t, fresh)
        \/ Respond
     /\ UNCHANGED <<presVars, webVars, messages>>
  \/ /\ \/ \E t \in KindTokens, fresh \in BOOLEAN :
             Len(sockets) < MaxSockets /\ SocketHandshake(t, fresh, TRUE)
        \/ SocketRefuse
     /\ UNCHANGED <<webVars, messages>>

KindSpec == Init /\ [][KindNext]_vars

\* IsoSpec: one user with RefreshTake open sessions and no further logins.
\* Two devices refresh or log out at the same time, the first with the token
\* of the newest session still open, the second with that of the oldest;
\* nothing fails and nothing expires.
IsoInit ==
  /\ users = [InitialUsers EXCEPT ![1].lastLoginAt = RefreshTake]
  /\ refreshTokens = [i \in 1..RefreshTake |-> NewRow(1, signRefreshToken(Ann, i), 0)]
  /\ expired = 0
  /\ proc = [p \in Procs |-> Idle]
  /\ last = NoResponse
  /\ held = {signRefreshToken(Ann, i) : i \in 1..RefreshTake}
  /\ hist = [j \in {} |-> NoHist]
  /\ PresenceInit
  /\ WebInit
  /\ messages = <<>>

IsoRoom == Len(refreshTokens) < RefreshTake + 1

\* The token device p presents.
IsoTokenInputs(p) ==
  {t \in SessTokenInputs : IF p = 1 THEN RowOf(t) # 1 ELSE RowOf(t) = 1}

IsoNext ==
  /\ \/ \E p \in Procs : \E t \in IsoTokenInputs(p) : RefreshStart(p, t, "none")
     \/ \E p \in Procs : RefreshFindUser(p, "none")
     \/ \E p \in Procs : IsoRoom /\ RefreshCreate(p, TRUE)
     \/ \E p \in Procs : RefreshRevoke(p, TRUE)
     \/ \E p \in Procs : RefreshFinish(p, TRUE)
     \/ \E p \in Procs : \E t \in IsoTokenInputs(p) : LogoutStart(p, t, TRUE)
     \/ \E p \in Procs : LogoutRevoke(p, TRUE)
     \/ \E p \in Procs : LogoutFinish(p, TRUE)
     \/ Respond
  /\ UNCHANGED <<presVars, webVars, messages>>

IsoSpec == IsoInit /\ [][IsoNext]_vars

\* LimSpec: one client address sends requests to one of the two limited
\* routes, as fast as it likes, and a request without an address comes by.
\* Between requests a millisecond passes, or a whole window of a limiter.
ClientIp == "10.0.0.1"
Delays == {1, LoginWindowMs, RefreshWindowMs}

LimNext ==
  /\ \/ \E l \in LimiterNames :
          /\ \A m \in LimiterNames \ {l} : DOMAIN buckets[m] = {}
          /\ RateLimit(l, ClientIp)
     \/ \E l \in LimiterNames :
          /\ \A m \in LimiterNames \ {l} : DOMAIN buckets[m] = {}
          /\ ClientKey("") \notin DOMAIN buckets[l]
          /\ RateLimit(l, "")
     \/ \E d \in Delays : Len(clock) < MaxInstants /\ ClockTick(d)
     \/ Respond /\ UNCHANGED webVars
  /\ UNCHANGED <<presVars, messages>>

LimSpec == Init /\ [][LimNext]_vars

\* CsrfSpec: one browser logs in and posts to /auth/refresh, one request at
\* a time, with or without the CSRF header; pages of other sites make it
\* post there with a header of their own or none.  Nothing fails and no
\* time passes.
CsrfNext ==
  /\ \/ /\ NoneInFlight /\ LoginStart(1, AnnInput, AnnPassword, "none")
        /\ UNCHANGED <<webVars, messages>>
     \/ Room /\ LoginCreate(1, TRUE) /\ UNCHANGED webVars
     \/ LoginLastLogin(1, TRUE) /\ UNCHANGED webVars
     \/ HttpLoginFinish(1) /\ UNCHANGED limVars
     \/ \E h \in HeaderKinds : RouteRefreshStart(1, ClientIp, h)
     \/ RefreshFindUser(1, "none") /\ UNCHANGED webVars
     \/ Room /\ RefreshCreate(1, TRUE) /\ UNCHANGED webVars
     \/ RefreshRevoke(1, TRUE) /\ UNCHANGED webVars
     \/ HttpRefreshFinish(1) /\ UNCHANGED limVars
     \/ Respond /\ UNCHANGED webVars
  /\ UNCHANGED <<presVars, messages>>

CsrfSpec == Init /\ [][CsrfNext]_vars

\* GateSpec: the realtime gateway while an admin deletes users.  Clients
\* connect with access tokens issued to users 1 and 2 before the run, expired
\* or not, or with no token; Bob's deleteUser calls run one at a time and
\* may fall between a handshake and its connection handler.  Nothing fails.
GateTokens ==
  {signAccessToken([id |-> i, role |-> InitialUsers[i].role]) : i \in {1, 2}}
    \cup {NoToken}

GateNext ==
  \/ /\ \/ \E u \in UserIds : NoneInFlight /\ DeleteUserStart(2, u, Admin, TRUE)
        \/ DeleteUserTransaction(2, TRUE)
        \/ DeleteUserFinish(2, TRUE)
        \/ Respond
     /\ UNCHANGED <<presVars, webVars, messages>>
  \/ /\ \/ \E t \in GateTokens, fresh \in BOOLEAN :
             Len(sockets) < MaxSockets /\ SocketHandshake(t, fresh, TRUE)
        \/ SocketRefuse
        \/ \E s \in DOMAIN sockets : SocketConnection(s)
        \/ \E s \in DOMAIN sockets : SocketClose(s)
     /\ UNCHANGED <<webVars, messages>>

GateSpec == Init /\ [][GateNext]_vars

\* AdminSpec: the users routes behind requireAuth and requireAdmin.  Ann and
\* Bob log in; whoever holds an access token, issued with the refresh tokens
\* given out so far and not expired, that passes both middlewares calls
\* updateRole or deleteUser with it, and two such calls may overlap.
\* Nothing fails.
AccessHeld == {signAccessToken([id |-> t.sub, role |-> t.role]) : t \in held}

PassedAdmin == {t \in AccessHeld : requireAdmin(requireAuth(TRUE, t, TRUE)) = ""}

AdminNext ==
  /\ \/ \E p \in Procs : LoginStart(p, AnnName, AnnPassword, "none")
     \/ \E p \in Procs : LoginStart(p, BobName, BobPassword, "none")
     \/ \E p \in Procs : Room /\ LoginCreate(p, TRUE)
     \/ \E p \in Procs : LoginLastLogin(p, TRUE)
     \/ \E p \in Procs : LoginFinish(p, TRUE)
     \/ \E p \in Procs, t \in PassedAdmin, u \in UserIds, r \in Roles :
          UpdateRoleStart(p, u, r, t.sub, TRUE)
     \/ \E p \in Procs : UpdateRoleUpdate(p, TRUE)
     \/ \E p \in Procs : UpdateRoleFinish(p, TRUE)
     \/ \E p \in Procs, t \in PassedAdmin, u \in UserIds :
          DeleteUserStart(p, u, t.sub, TRUE)
     \/ \E p \in Procs : DeleteUserTransaction(p, TRUE)
     \/ \E p \in Procs : DeleteUserFinish(p, TRUE)
     \/ Respond
  /\ UNCHANGED <<presVars, webVars, messages>>

AdminSpec == Init /\ [][AdminNext]_vars

\* MsgSpec: the messages routes behind requireAuth.  Ann (USER) and Bob
\* (ADMIN) create, edit, delete and list messages with access tokens that
\* passed requireAuth, and two calls may overlap.  The store answers every
\* call; the audit write may fail.
MsgTokens ==
  {signAccessToken([id |-> i, role |-> InitialUsers[i].role]) : i \in {1, 2}}
    \cup {GarbageToken}

PassedAuth == {t \in MsgTokens : requireAuth(TRUE, t, TRUE).err = ""}

TooLong == Str([i \in 1..(MessageMaxLen + 1) |-> "a"])

\* updateMessage has no length check: a long content is as any other there.
UpdateContents ==
  {NoContent, NumberContent, Str(<<>>), Str(<<" ">>), Str(<<"h", "i">>),
   Str(<<" ", "y", "o", " ">>)}

CreateContents == UpdateContents \cup {TooLong}

MessageIds == 1..MaxMessages

ListLimits == {<<>>, <<0>>, <<1>>, <<MaxListLimit + 1>>}

MsgRoom ==
  Len(wire) + Cardinality({p \in Procs : proc[p].pc # "idle"}) < MaxBroadcasts

MsgNext ==
  /\ \/ \E p \in Procs, t \in PassedAuth, c \in CreateContents :
          MsgRoom /\ Len(messages) < MaxMessages /\ CreateMessageStart(p, t, c, TRUE)
     \/ \E p \in Procs, auditOk \in BOOLEAN : CreateMessageFinish(p, auditOk)
     \/ \E p \in Procs, t \in PassedAuth, m \in MessageIds, c \in UpdateContents :
          MsgRoom /\ UpdateMessageStart(p, t, m, c, TRUE)
     \/ \E p \in Procs : UpdateMessageUpdate(p, TRUE)
     \/ \E p \in Procs, auditOk \in BOOLEAN : UpdateMessageFinish(p, auditOk)
     \/ \E p \in Procs, t \in PassedAuth, m \in MessageIds :
          MsgRoom /\ DeleteMessageStart(p, t, m, TRUE)
     \/ \E p \in Procs : DeleteMessageUpdate(p, TRUE)
     \/ \E p \in Procs, auditOk \in BOOLEAN : DeleteMessageFinish(p, auditOk)
     \/ \E t \in PassedAuth, l \in ListLimits : ListMessages(t, l, TRUE)
     \/ Respond /\ UNCHANGED <<presVars, messages>>
  /\ UNCHANGED webVars

MsgSpec == Init /\ [][MsgNext]_vars

\* PresSpec: the realtime gateway.  Clients of both users open and close
\* connections with good and bad handshake tokens while messages are
\* broadcast; the user table is as at the start.
GhostAccessToken == signAccessToken([id |-> 3, role |-> "USER"])

HandshakeTokens ==
  {signAccessToken([id |-> i, role |-> InitialUsers[i].role]) : i \in {1, 2}}
    \cup {NoToken, NonStringToken, GarbageToken, UnstoredToken, GhostAccessToken}

MessageEvents == {"message:create", "message:update", "message:delete"}

EventsSent == Cardinality({k \in DOMAIN wire : wire[k].event \in MessageEvents})

PresNext ==
  /\ \/ \E t \in HandshakeTokens, fresh \in BOOLEAN, storeOk \in BOOLEAN :
          Len(sockets) < MaxSockets /\ SocketHandshake(t, fresh, storeOk)
     \/ SocketRefuse
     \/ \E s \in DOMAIN sockets : SocketConnection(s)
     \/ \E s \in DOMAIN sockets : SocketClose(s)
     \/ \E e \in MessageEvents :
          EventsSent < MaxEvents /\ MessageBroadcast(e, EventsSent + 1)
  /\ UNCHANGED <<webVars, messages>>

PresSpec == Init /\ [][PresNext]_vars

\* ------------------------------------------------------------ properties
\* Row i's token has been released to a client.
Released(i) == \E t \in held : RowOf(t) = i

\* The rows created by refreshes that had matched row i.
Successors(i) == {k \in RowIds : refreshTokens[k].replaces = i}

\* The row a login created from which row i descends.
RECURSIVE Root(_)
Root(i) == IF refreshTokens[i].replaces = 0 THEN i ELSE Root(refreshTokens[i].replaces)

\* The session a login opened: its row and the rows rotated from it.
SessionOf(s) == {i \in RowIds : Root(i) = s}

\* Successful refreshes that presented a token of S.
RECURSIVE SumRefreshed(_)
SumRefreshed(S) ==
  IF S = {} THEN 0
  ELSE LET i == CHOOSE k \in S : TRUE
       IN  Hist(i).refreshed + SumRefreshed(S \ {i})

\* What the caller and the audit log see of a finished call.
Answer(c) ==
  [pc |-> c.pc, status |-> c.status, message |-> c.message, out |-> c.out,
   access |-> c.access, emitted |-> c.emitted]

\* An audit row without the ids of the account it is about and without the
\* echo of the username that was typed.
Blank(row) ==
  [row EXCEPT !.actorUserId = 0, !.entityId = 0, !.usernameAttempted = <<>>]

LoginAnswer(c) ==
  [pc |-> c.pc, status |-> c.status, message |-> c.message, out |-> c.out,
   access |-> c.access,
   emitted |-> [k \in 1..Len(c.emitted) |-> Blank(c.emitted[k])]]

\* C1: rotation is single-use.  A Refresh that presents a token which an
\* earlier successful Refresh had consumed before this call arrived is
\* answered 401 and releases no token, whether or not the token that
\* replaced it has been used.
C1_RotationSingleUse ==
  last.op = "refresh" /\ last.afterRefresh =>
    last.status = 401 /\ last.out = NoToken

\* A replay of a consumed token is being answered while the token that
\* replaced it is still unused.
C1_Witness ==
  /\ last.op = "refresh" /\ last.afterRefresh /\ last.status = 401
  /\ RowOf(last.tok) # 0
  /\ refreshTokens[RowOf(last.tok)].replacedByTokenId # 0
  /\ Hist(refreshTokens[RowOf(last.tok)].replacedByTokenId).refreshed = 0

\* C2: under any interleaving of concurrent Refresh(r) calls at most one
\* succeeds: no token is consumed by two successful refreshes, and no row
\* has two released successors that are both still active.
C2_AtMostOneRefreshSucceeds ==
  /\ \A j \in DOMAIN hist : hist[j].refreshed <= 1
  /\ \A i \in RowIds :
       Cardinality({k \in Successors(i) :
                      Released(k) /\ ~refreshTokens[k].revoked}) <= 1

\* C3: chain integrity.  When no call is in flight, a session that was
\* opened by a login and then only rotated by N successful refreshes (every
\* row's token was released, none was logged out, its newest row has not
\* expired) has N revoked rows and N + 1 rows in all, each revoked row's
\* replacedByTokenId is the row created by the refresh that consumed it,
\* and exactly one row is active.
C3_ChainIntegrity ==
  \A s \in RowIds :
    LET S == SessionOf(s)
        N == SumRefreshed(S)
    IN  (/\ \A q \in Procs : proc[q].pc = "idle"
         /\ refreshTokens[s].replaces = 0
         /\ \A i \in S : Released(i) /\ ~Hist(i).loggedOut
         /\ \E i \in S : ~RowExpired(i))
        =>
        (/\ Cardinality({i \in S : refreshTokens[i].revoked}) = N
         /\ Cardinality(S) = N + 1
         /\ \A i \in S :
              refreshTokens[i].revoked =>
                /\ refreshTokens[i].replacedByTokenId \in S
                /\ refreshTokens[refreshTokens[i].replacedByTokenId].replaces = i
                /\ Successors(i) = {refreshTokens[i].replacedByTokenId}
         /\ Cardinality({i \in S : ~refreshTokens[i].revoked /\ ~RowExpired(i)}) = 1)

\* A login followed by two successful refreshes: a chain of three rows.
C3_Witness ==
  /\ \A q \in Procs : proc[q].pc = "idle"
  /\ \E s \in RowIds :
       /\ refreshTokens[s].replaces = 0
       /\ \A i \in SessionOf(s) : Released(i) /\ ~Hist(i).loggedOut
       /\ \E i \in SessionOf(s) : ~RowExpired(i)
       /\ SumRefreshed(SessionOf(s)) = 2

\* C4: a Refresh with a signature-valid token whose row is revoked fails
\* exactly as a Refresh with a signature-valid token that was never stored:
\* same status, same message, same audit row (same reason), whatever the
\* store and the audit sink do; and every replay that is answered is
\* answered as the never-stored token would be in that state.
C4_ReplayLooksUnknown ==
  /\ \A t \in held, f \in Faults :
       TokenClass(t) = "replay" /\ t.sub = UnstoredToken.sub =>
         Answer(RefreshArrives(t, f)) = Answer(RefreshArrives(UnstoredToken, f))
  /\ last.op = "refresh" /\ last.class = "replay" =>
       /\ last.tok.sub = UnstoredToken.sub
       /\ Answer(last) = Answer(RefreshArrives(UnstoredToken, "none"))

\* A replay of a revoked token is being answered 401.
C4_Witness ==
  /\ last.op = "refresh" /\ last.class = "replay" /\ last.status = 401
  /\ TokenClass(UnstoredToken) = "unknown"

\* C5: after a Logout(r) has returned for a token r whose row was active
\* when that call arrived, every later Refresh(r) is answered 401.
C5_NoRefreshAfterLogout ==
  last.op = "refresh" /\ last.afterLogout =>
    last.status = 401 /\ last.out = NoToken

\* C6: logout is idempotent.  A Logout(r) that arrives after a Logout(r) of
\* the live token r has returned is answered 204, changes no row, and
\* leaves exactly one AUTH_LOGOUT row written for r by the two calls.
C6_LogoutTwice ==
  last.op = "logout" /\ last.afterLogout =>
    /\ last.status = 204
    /\ ~last.wrote
    /\ Hist(last.tok.jti).logoutAudits = 1

\* C7: logout never surfaces an error.  Whatever the token (missing,
\* garbage, expired, matching no row) and whatever fails during the call
\* (the store's findMany or update, the audit write), the answer is 204
\* with no error message.
C7_LogoutNeverFails ==
  last.op = "logout" => last.status = 204 /\ last.message = ""

\* A logout that revoked a row and whose audit write then failed is being
\* answered 204.
C7_Witness ==
  last.op = "logout" /\ last.wrote /\ last.auditFailed /\ last.status = 204

\* C8: credential rejection symmetry.  A login with a username that does
\* not exist and a login with an existing username and a wrong password
\* get the same status and the same message, and their AUTH_LOGIN_FAILED
\* rows are the same but for the actor/entity id (null against the id of
\* the targeted account) and the echo of the username typed; every
\* rejected login that is answered is answered as the unknown username is.
C8_RejectionSymmetry ==
  /\ \A f \in Faults, w \in PasswordInputs :
       LET a == LoginArrives(UnknownName, w, f)
           b == LoginArrives(AnnInput, "guess", f)
       IN  /\ LoginAnswer(a) = LoginAnswer(b)
           /\ \A k \in 1..Len(a.emitted) :
                /\ a.emitted[k].action = "AUTH_LOGIN_FAILED"
                /\ a.emitted[k].actorUserId = 0
                /\ a.emitted[k].usernameAttempted = normalizeUsername(UnknownName)
                /\ b.emitted[k].actorUserId = FindUserByUsername(AnnName)
                /\ b.emitted[k].entityId = b.emitted[k].actorUserId
                /\ b.emitted[k].usernameAttempted = normalizeUsername(AnnInput)
  /\ last.op = "login" /\ last.status = 401 =>
       LoginAnswer(last) = LoginAnswer(LoginArrives(UnknownName, "guess", "none"))

\* A wrong password for an existing account is being answered 401.
C8_Witness ==
  /\ last.op = "login" /\ last.status = 401 /\ last.user # 0
  /\ Len(last.emitted) = 1
  /\ LoginArrives(UnknownName, "guess", "none").status = 401

\* C9: audit writes are best-effort.  A Login or a Refresh that has written
\* its rows and whose audit write then fails still answers 200 with the
\* token it created.
C9_AuditBestEffort ==
  last.op \in {"login", "refresh"} /\ last.wrote /\ last.auditFailed =>
    last.status = 200 /\ last.out = last.newTok

\* C10: the new refresh token of a Refresh is released only after the row
\* it replaces has been revoked: no client holds a token created by a
\* refresh while the row that refresh had matched is still not revoked,
\* also when the revoking update failed after the new row was created.
C10_ReleasedAfterRevoke ==
  \A t \in held :
    RowOf(t) # 0 /\ refreshTokens[RowOf(t)].replaces # 0 =>
      refreshTokens[refreshTokens[RowOf(t)].replaces].revoked

\* A refresh failed between creating the new row and revoking the old one
\* (the new row exists, unreleased, beside the still active old row), and
\* another refresh of the same token went through and released its token.
C10_Witness ==
  \E i \in RowIds :
    /\ \E k \in Successors(i) : ~Released(k) /\ \A q \in Procs : proc[q].newRow # k
    /\ \E k \in Successors(i) : Released(k)
    /\ refreshTokens[i].revoked

\* The connection count the presence map stores for user id u.
Connections(u) == IF u \in DOMAIN presence THEN presence[u].connections ELSE 0

\* The presence:update events sent so far, in the order they were sent.
PresenceEvents == SelectSeq(wire, LAMBDA e : e.event = "presence:update")

\* The sockets that were in the namespace when wire[k] was sent.
ConnectedAt(k) ==
  {s \in DOMAIN sockets :
     /\ sockets[s].openedAt # 0
     /\ sockets[s].openedAt <= k
     /\ (sockets[s].closedAt = 0 \/ k < sockets[s].closedAt)}

\* C11: presence conservation.  For every user the stored connection count
\* is the number of connection-handler runs minus the number of
\* disconnect-handler runs for that user, it is never negative, and the
\* user has an entry in the map exactly when the count is above 0.
C11_PresenceConservation ==
  /\ DOMAIN presence \subseteq UserIds
  /\ \A u \in UserIds :
       /\ Connections(u) = Tally(u)[1] - Tally(u)[2]
       /\ Connections(u) >= 0
       /\ u \in DOMAIN presence => presence[u].connections > 0
       /\ Tally(u)[1] - Tally(u)[2] > 0 => u \in DOMAIN presence

\* A user with two connections has closed one of them and is still listed.
C11_Witness ==
  \E u \in DOMAIN presence :
    Tally(u) = <<2, 1>> /\ presence[u].connections = 1

\* C12: every step that changes the presence map (an accepted connection,
\* a disconnect) sends exactly one presence:update, to every socket that is
\* connected after the step and not only to the one that connected, and
\* its payload lists exactly the entries of the map after the change.
C12_BroadcastAfterChange ==
  [][presence' # presence =>
       /\ Len(wire') = Len(wire) + 1
       /\ wire'[Len(wire')].event = "presence:update"
       /\ wire'[Len(wire')].payload = buildPresencePayload(presence')
       /\ wire'[Len(wire')].to = OpenSockets']_vars

\* The snapshot of a second connection reached the socket that was already
\* connected, and lists a count of two or two users.
C12_Witness ==
  /\ wire # <<>>
  /\ wire[Len(wire)].event = "presence:update"
  /\ \E s \in wire[Len(wire)].to : sockets[s].openedAt < Len(wire)
  /\ \E s \in wire[Len(wire)].to : sockets[s].openedAt = Len(wire)
  /\ wire[Len(wire)].payload = buildPresencePayload(presence)

\* C13: a connection attempt whose handshake token is missing, not a
\* string, badly signed, expired, or names a user that is not in the store
\* is refused: it never becomes a pending or open connection, and neither
\* the step that judges it nor the step that refuses it changes the
\* presence map or sends anything.
C13_RejectedHandshake ==
  [][/\ \A s \in DOMAIN sockets' :
          sockets'[s].class # "ok" => sockets'[s].state = "rejected"
     /\ (Len(sockets') > Len(sockets) \/ ~NoneRefused) =>
          /\ presence' = presence
          /\ wire' = wire
          /\ OpenSockets' = OpenSockets]_vars

\* An attempt with a well-signed token for a user that is not in the store
\* is being refused while somebody is online.
C13_Witness ==
  /\ ~NoneRefused
  /\ sockets[Len(sockets)].class = "nouser"
  /\ sockets[Len(sockets)].err = "User not found"
  /\ presence # << >>

\* C14: presence snapshots are emitted in the order in which the map went
\* through its states: the k-th presence:update carries the map as it was
\* after the k-th change, the newest one carries the current map, and the
\* newest snapshot every connected socket has been sent shows the current
\* map, never an older one.
C14_SnapshotsInOrder ==
  /\ Len(PresenceEvents) = Len(trans)
  /\ \A k \in 1..Len(trans) :
       PresenceEvents[k].payload = buildPresencePayload(trans[k])
  /\ trans # <<>> => trans[Len(trans)] = presence
  /\ \A s \in OpenSockets :
       LET mine == {k \in DOMAIN wire :
                      wire[k].event = "presence:update" /\ s \in wire[k].to}
       IN  /\ mine # {}
           /\ \A k \in mine :
                (\A j \in mine : j <= k) =>
                  wire[k].payload = buildPresencePayload(presence)

\* The map went up to a count of two and down again: three snapshots, the
\* last one showing the lower count to a socket that saw the higher one.
C14_Witness ==
  /\ Len(trans) >= 3
  /\ \E u \in DOMAIN presence :
       /\ presence[u].connections = 1
       /\ u \in DOMAIN trans[Len(trans) - 1]
       /\ trans[Len(trans) - 1][u].connections = 2
  /\ OpenSockets # {}

C16_NoBacklog ==
  \A k \in DOMAIN wire :
    wire[k].event \in MessageEvents => wire[k].to = ConnectedAt(k)

\* A broadcast reached a connected socket, and a socket that opened after
\* it has not been sent it.
C16_Witness ==
  \E k \in DOMAIN wire :
    /\ wire[k].event \in MessageEvents
    /\ wire[k].to # {}
    /\ \E s \in OpenSockets : sockets[s].openedAt > k /\ s \notin wire[k].to

\* C17: REVOKED is terminal.  Whatever Register, Login, Refresh, Logout,
\* updateRole or deleteUser does, a refresh-token row that is revoked stays in
\* the table, revoked, with the same owner and the same token hash; and a
\* Refresh that presents the token of a row that was revoked when the call
\* arrived is never answered 200 and releases no token.
C17_RevokedIsTerminal ==
  [][ /\ \A i \in RowIds :
           refreshTokens[i].revoked =>
             /\ i \in DOMAIN refreshTokens'
             /\ refreshTokens'[i].revoked
             /\ refreshTokens'[i].userId = refreshTokens[i].userId
             /\ refreshTokens'[i].tokenHash = refreshTokens[i].tokenHash
      /\ last'.op = "refresh" /\ last'.class = "replay" =>
           last'.status # 200 /\ last'.out = NoToken ]_vars

\* A token whose row was revoked by rotation and whose owner was then deleted
\* is being refused by Refresh, while a row revoked by the bulk revoke of
\* deleteUser alone is in the table too.
C17_Witness ==
  /\ last.op = "refresh" /\ last.class = "replay" /\ last.status = 401
  /\ RowOf(last.tok) # 0
  /\ refreshTokens[RowOf(last.tok)].replacedByTokenId # 0
  /\ users[refreshTokens[RowOf(last.tok)].userId].deleted
  /\ \E i \in RowIds :
       /\ refreshTokens[i].revoked
       /\ refreshTokens[i].replacedByTokenId = 0
       /\ users[refreshTokens[i].userId].deleted

\* C18: Register answers 409 whenever the normalized username belongs to a
\* non-deleted user, also when Register calls overlap: no two non-deleted
\* users ever hold the same username, and a Register with valid input that
\* is answered while another user holds the normalized username is answered
\* 409 "username already exists".
C18_RegisterConflict ==
  /\ \A i, j \in UserIds :
       i # j /\ ~users[i].deleted /\ ~users[j].deleted =>
         users[i].username # users[j].username
  /\ last.op = "register" /\ last.status # 400 =>
       LET holder == FindUserByUsername(last.username)
       IN  holder # 0 /\ holder # last.user /\ ~users[holder].deleted =>
             last.status = 409 /\ last.message = "username already exists"

\* The username a user row was stored under by Register or at start-up.
StoredName(i) == IF users[i].deleted THEN users[i].was ELSE users[i].username

\* C19: a Register whose username has fewer than 3 characters or whose
\* password has fewer than 8 is answered 400 and stores no user; hence every
\* username in the user table has at least 3 characters.
C19_RegisterValidation ==
  /\ last.op = "register"
       /\ (Len(last.username) < MinUsernameLen
             \/ PasswordLen(last.password) < MinPasswordLen) =>
       last.status = 400 /\ ~last.wrote
  /\ \A i \in UserIds : Len(StoredName(i)) >= MinUsernameLen

\* C20: deleteUser is a soft delete that frees the username.  A deleted row
\* stays in the table, deleted, under the same id; a deleteUser answered 204
\* leaves the row of its target marked deleted; a Login with a username freed
\* by a deletion is answered 401 "invalid credentials" whatever the password,
\* and no Login ever opens a session for a deleted user; a Register with
\* valid input for a freed username is answered 201 and creates a user with
\* another id than the deleted one, under that username.
C20_SoftDeleteFreesName ==
  /\ [][ \A i \in UserIds :
           users[i].deleted =>
             /\ i \in DOMAIN users'
             /\ users'[i].deleted
             /\ users'[i].id = users[i].id
             /\ users'[i].was = users[i].was ]_vars
  /\ [](/\ last.op = "deleteUser" /\ last.status = 204 =>
             /\ last.target \in UserIds
             /\ users[last.target].deleted
             /\ users[last.target].was = last.username
        /\ last.op = "login" /\ Freed(last.username) =>
             /\ last.status = 401
             /\ last.message = "invalid credentials"
             /\ last.out = NoToken
        /\ last.op = "login" /\ last.status = 200 => ~users[last.user].deleted
        /\ last.op = "register" /\ last.freed /\ last.status # 400 =>
             /\ last.status = 201
             /\ last.user \in UserIds
             /\ ~users[last.user].deleted
             /\ users[last.user].username = last.username
             /\ \E d \in UserIds \ {last.user} :
                  users[d].deleted /\ users[d].was = last.username)

\* Ann was deleted, the login under her name was refused since, and a
\* Register with her username is being answered 201 with a new user.
C20_Witness ==
  /\ last.op = "register" /\ last.freed /\ last.status = 201
  /\ users[1].deleted /\ users[1].was = normalizeUsername(AnnInput)
  /\ last.user = 3 /\ users[3].username = normalizeUsername(AnnInput)

\* deleteUser(u) has completed: the row is marked deleted and no deleteUser
\* call for u is still running.
DeleteDone(u) ==
  /\ u \in UserIds
  /\ users[u].deleted
  /\ \A p \in Procs : ~(proc[p].op = "deleteUser" /\ proc[p].user = u)

\* C21: after deleteUser(u) has completed, u has no refresh-token row that is
\* neither revoked nor expired, and no Refresh for u is answered with new
\* tokens, also when a Refresh for u had passed its candidate lookup before
\* the deletion ran.
C21_DeleteEndsSessions ==
  /\ \A i \in RowIds :
       DeleteDone(refreshTokens[i].userId) =>
         refreshTokens[i].revoked \/ RowExpired(i)
  /\ last.op = "refresh" /\ last.status = 200 => ~DeleteDone(last.user)

\* The audit rows of a call that carry the action a.
Emitted(c, a) == SelectSeq(c.emitted, LAMBDA row : row.action = a)

\* C22: the frame of Login.  No step of a Login changes or removes an
\* existing refresh-token row, and a Login adds at most one row per step.  A
\* Login answered 200 has created one row, not revoked, owned by the user and
\* holding the hash of the token returned, and has written exactly one
\* AUTH_LOGIN_SUCCESS row and no AUTH_LOGIN_FAILED.  A Login answered 401
\* (unknown user or wrong password) has changed no row of either table,
\* lastLoginAt included, returns no token, and has written exactly one
\* AUTH_LOGIN_FAILED row and no AUTH_LOGIN_SUCCESS.
C22_LoginFrame ==
  [][ LET byLogin ==
            \/ \E p \in Procs :
                 /\ proc'[p] # proc[p]
                 /\ proc[p].op = "login" \/ proc'[p].op = "login"
            \/ last' # last /\ last'.op = "login"
          answered == last' # last /\ last'.op = "login"
      IN  /\ byLogin =>
               /\ Len(refreshTokens') \in {Len(refreshTokens), Len(refreshTokens) + 1}
               /\ \A i \in RowIds : refreshTokens'[i] = refreshTokens[i]
          /\ answered /\ last'.status = 200 =>
               /\ last'.out = last'.newTok /\ last'.out.kind = "refresh"
               /\ last'.newRow \in DOMAIN refreshTokens'
               /\ {i \in DOMAIN refreshTokens' :
                     verifyRefreshTokenHash(refreshTokens'[i].tokenHash, last'.out)}
                    = {last'.newRow}
               /\ refreshTokens'[last'.newRow].userId = last'.user
               /\ refreshTokens'[last'.newRow].replaces = 0
               /\ Len(Emitted(last', "AUTH_LOGIN_SUCCESS")) = 1
               /\ Len(last'.emitted) = 1
          /\ answered /\ last'.status = 401 =>
               /\ ~last'.wrote
               /\ last'.out = NoToken /\ last'.access = NoToken
               /\ users' = users /\ refreshTokens' = refreshTokens
               /\ Len(Emitted(last', "AUTH_LOGIN_FAILED")) = 1
               /\ Len(last'.emitted) = 1 ]_vars

\* A Login is being answered 200 for a user who has an earlier session that
\* was rotated: the new row stands next to a revoked one and an active one.
C22_Witness ==
  /\ last.op = "login" /\ last.status = 200
  /\ \E i, j \in RowIds :
       /\ i < last.newRow /\ j < last.newRow
       /\ refreshTokens[i].userId = last.user /\ refreshTokens[i].revoked
       /\ refreshTokens[j].userId = last.user /\ ~refreshTokens[j].revoked

\* C23: POST /auth/logout revokes the refresh token.  When a logout request
\* of the browser, sent with the cookies that apply to /auth/logout, is
\* answered, the refresh-token row of every refresh cookie the browser held
\* when it sent the request is revoked.
C23_LogoutRevokesCookieSession ==
  [][ last' # last /\ FromBrowser(last') =>
        \A ck \in jar :
          ck.name = REFRESH_COOKIE_NAME /\ RowOf(ck.value) # 0 =>
            refreshTokens'[RowOf(ck.value)].revoked ]_vars

\* C24: the admin bootstrap.  In every state and for every configuration:
\* when a user holds the configured normalized username the bootstrap
\* leaves the user table as it is; otherwise it adds exactly one row, an
\* ADMIN under that username, and changes no other row; and running it
\* again changes nothing more.  Every bootstrap that runs does to the table
\* what that says, and never touches the role, password hash or avatar of a
\* row that was there.
C24_BootstrapIdempotent ==
  /\ [](\A cfg \in BootConfigs :
          LET once == ensureInitialAdmin(users, cfg)
              name == normalizeUsername(cfg.username)
          IN  /\ ensureInitialAdmin(once, cfg) = once
              /\ FindIn(users, name) # 0 \/ ~cfg.set => once = users
              /\ FindIn(users, name) = 0 /\ cfg.set =>
                   /\ Len(once) = Len(users) + 1
                   /\ SubSeq(once, 1, Len(users)) = users
                   /\ once[Len(once)].username = name
                   /\ once[Len(once)].role = "ADMIN"
                   /\ Argon2Verify(once[Len(once)].passwordHash, cfg.password))
  /\ [][ last' # last /\ last'.op = "bootstrap" =>
           /\ \A i \in UserIds : users'[i] = users[i]
           /\ last'.wrote <=> FindIn(users, last'.username) = 0
                               /\ last'.username # <<>>
           /\ last'.wrote =>
                /\ Len(users') = Len(users) + 1
                /\ users'[Len(users')].role = "ADMIN"
                /\ users'[Len(users')].username = last'.username
           /\ ~last'.wrote => users' = users ]_vars

\* A restart finds the configured name held by a user who is not an ADMIN
\* (the admin an earlier start created was demoted since) and leaves it so.
C24_Witness ==
  /\ last.op = "bootstrap" /\ ~last.wrote
  /\ last.username = normalizeUsername(AdminInput)
  /\ FindIn(users, last.username) = 3
  /\ users[3].role = "USER"
  /\ Argon2Verify(users[3].passwordHash, "change-me")

\* C25: token kinds are not interchangeable.  requireAuth passes a request
\* on only with a token signed as an access token, and refuses every refresh
\* token with 401; the realtime handshake lets through only attempts with a
\* token signed as an access token and refuses every refresh token; Refresh
\* and Logout change a row or release a token only for a token signed as a
\* refresh token, and Refresh answers an access token with 401.
C25_TokenKindsApart ==
  /\ last.op = "requireAuth" =>
       /\ last.class = "passed" => last.tok.kind = "access"
       /\ last.tok.kind = "refresh" => last.class = "refused" /\ last.status = 401
  /\ \A s \in DOMAIN sockets :
       /\ sockets[s].state # "rejected" => sockets[s].kind = "access"
       /\ sockets[s].kind = "refresh" =>
            /\ sockets[s].state = "rejected"
            /\ sockets[s].err = "Invalid or expired access token"
  /\ last.op \in {"refresh", "logout"} =>
       /\ last.wrote \/ last.out # NoToken => last.tok.kind = "refresh"
       /\ last.op = "refresh" /\ last.tok.kind = "access" => last.status = 401

\* requireAuth is refusing a refresh token whose session is live, after the
\* handshake has let the same user in with an access token.
C25_Witness ==
  /\ last.op = "requireAuth" /\ last.class = "refused"
  /\ last.tok \in held /\ TokenClass(last.tok) = "live"
  /\ \E s \in DOMAIN sockets :
       sockets[s].state = "pending" /\ sockets[s].user.id = last.tok.sub

\* The requests of `key` that limiter l passed on at the instants in T.
RECURSIVE AdmittedAt(_, _, _)
AdmittedAt(l, key, T) ==
  IF T = {} THEN 0
  ELSE LET t == CHOOSE x \in T : TRUE
           n == IF <<key, t>> \in DOMAIN admitted[l] THEN admitted[l][<<key, t>>] ELSE 0
       IN  n + AdmittedAt(l, key, T \ {t})

\* C26: the rate limiters.  For each limiter and client key, the requests
\* passed on within any interval of windowMs are at most max (10 within 10
\* minutes for login, 30 within 5 minutes for refresh); the count of a bucket
\* never exceeds max; and a request that is refused is answered 429 and has
\* changed nothing.
C26_RateLimit ==
  /\ \A l \in LimiterNames :
       \A k \in DOMAIN admitted[l] :
         AdmittedAt(l, k[1],
                    {t \in {clock[i] : i \in DOMAIN clock} :
                       k[2] <= t /\ t < k[2] + Limiters[l].windowMs})
           <= Limiters[l].max
  /\ \A l \in LimiterNames :
       \A key \in DOMAIN buckets[l] : buckets[l][key].count <= Limiters[l].max
  /\ last.op \in LimiterNames /\ last.class = "refused" =>
       /\ last.status = 429
       /\ buckets[last.op][ClientKey(ClientIp)].count = Limiters[last.op].max

\* The messages of the 401 answers of refresh.
RefreshRefusals ==
  {"missing refresh token", "invalid refresh token",
   "refresh token not recognized", "user not found"}

\* C27: the failure paths of Refresh.  A Refresh answered 401 (missing
\* token, invalid or expired signature, no matching row, user not found) has
\* changed no refresh-token row, returns no token, and has written exactly
\* one AUTH_REFRESH_FAILED row and nothing else; a Refresh whose token was
\* missing, invalid, unknown or already revoked when it arrived is never
\* answered 200 and writes no row, whatever else fails.  A Refresh answered
\* 200 has written exactly one AUTH_REFRESH_SUCCESS row and nothing else.
C27_RefreshFailureFrame ==
  [][ LET answered == last' # last /\ last'.op = "refresh"
      IN  /\ answered /\ last'.status = 401 =>
               /\ last'.message \in RefreshRefusals
               /\ ~last'.wrote
               /\ refreshTokens' = refreshTokens
               /\ last'.out = NoToken /\ last'.access = NoToken
               /\ held' = held
               /\ Len(Emitted(last', "AUTH_REFRESH_FAILED")) = 1
               /\ Len(last'.emitted) = 1
          /\ answered /\ last'.class # "live" =>
               /\ last'.status \in {401, 500}
               /\ ~last'.wrote
               /\ refreshTokens' = refreshTokens
               /\ last'.out = NoToken /\ last'.access = NoToken
          /\ answered /\ last'.status = 200 =>
               /\ Len(Emitted(last', "AUTH_REFRESH_SUCCESS")) = 1
               /\ Len(last'.emitted) = 1 ]_vars

\* A Refresh that presented a token rotated before is being answered 401
\* "refresh token not recognized" while its user has an active session.
C27_Witness ==
  /\ last.op = "refresh" /\ last.status = 401
  /\ last.message = "refresh token not recognized"
  /\ last.class = "replay"
  /\ \E i \in RowIds :
       refreshTokens[i].userId = last.tok.sub /\ ~refreshTokens[i].revoked

\* C28: sessions are isolated.  A step of a Refresh or a Logout of token r
\* leaves every row other than the one holding the hash of r as it was, and
\* a row it adds is not revoked; a Refresh answered 200 and a Logout that
\* revoked have revoked the row of r, which is the row they matched.  So the
\* tokens of the other sessions remain usable: a Refresh whose token had a
\* row neither revoked nor expired when it arrived is not refused.
C28_SessionsIsolated ==
  /\ [](last.op = "refresh" /\ last.class = "live" => last.status # 401)
  /\ [][ /\ \A p \in Procs :
              LET c == IF proc[p].pc # "idle" THEN proc[p] ELSE proc'[p]
              IN  proc'[p] # proc[p] /\ c.op \in {"refresh", "logout"} =>
                    /\ \A i \in RowIds :
                         i # RowOf(c.tok) => refreshTokens'[i] = refreshTokens[i]
                    /\ \A i \in DOMAIN refreshTokens' \ RowIds :
                         ~refreshTokens'[i].revoked
         /\ last' # last /\ last'.op \in {"refresh", "logout"} =>
              /\ \A i \in RowIds :
                   i # RowOf(last'.tok) => refreshTokens'[i] = refreshTokens[i]
              /\ (last'.op = "refresh" /\ last'.status = 200) \/
                 (last'.op = "logout" /\ last'.wrote) =>
                   /\ last'.matched = RowOf(last'.tok)
                   /\ refreshTokens'[last'.matched].revoked ]_vars

\* C29: a refresh token whose row is neither revoked nor expired when the
\* Refresh arrives is accepted, however many sessions its user has opened
\* since it was issued: with nothing failing, the call is answered 200 with
\* a new pair and has matched the row of the token.
C29_LiveTokenAccepted ==
  last.op = "refresh" /\ last.class = "live" =>
    /\ last.status = 200
    /\ last.out # NoToken /\ last.access # NoToken
    /\ last.matched = RowOf(last.tok)

\* C30: a Logout with a signature-valid token whose row is not revoked when
\* the call arrives revokes that row and writes one AUTH_LOGOUT row, however
\* many other non-revoked rows its user has.
C30_LogoutAlwaysRevokes ==
  last.op = "logout" /\ last.class = "live" =>
    /\ last.status = 204
    /\ last.wrote
    /\ refreshTokens[RowOf(last.tok)].revoked
    /\ Len(Emitted(last, "AUTH_LOGOUT")) = 1

\* The request did not carry a valid CSRF pair: the XSRF-TOKEN cookie or
\* the header was missing, or the two differed.
CsrfInvalid(c) ==
  c.cookieToken = NoToken \/ c.headerToken = NoToken \/ c.cookieToken # c.headerToken

\* C31 as stated: a POST /auth/refresh whose XSRF-TOKEN cookie or CSRF
\* header is missing, or whose two values differ, is answered 403; the
\* service is not called, so no refresh-token row is created or revoked, no
\* audit row is written and no cookie is rotated.
C31_CsrfRejected ==
  [][ last' # last /\ last'.op = "refresh" /\ CsrfInvalid(last') =>
        /\ last'.status = 403
        /\ refreshTokens' = refreshTokens
        /\ ~last'.wrote /\ last'.emitted = <<>>
        /\ last'.out = NoToken /\ last'.access = NoToken
        /\ jar' = jar ]_vars

\* C31 as amended: such a request is answered 403, or 429 when the refresh
\* limiter has refused it first (its bucket was full), and in both cases no
\* row is created or revoked, no audit row is written and no cookie is
\* rotated; the call is answered in the step it arrives in.
C31_CsrfOrLimiterRejects ==
  [][ last' # last /\ last'.op = "refresh" /\ CsrfInvalid(last') =>
        /\ last'.status \in {403, 429}
        /\ last'.status = 429 <=> BucketFull("refresh", ClientKey(ClientIp))
        /\ last'.status = 403 => last'.message = "CSRF token mismatch"
        /\ proc' = proc
        /\ refreshTokens' = refreshTokens
        /\ ~last'.wrote /\ last'.emitted = <<>>
        /\ last'.out = NoToken /\ last'.access = NoToken
        /\ jar' = jar ]_vars

\* A request that carries the browser's cookies and a header of the
\* sender's own is being answered 403 while the session of the refresh
\* cookie is active.
C31_Witness ==
  /\ last.op = "refresh" /\ last.status = 403
  /\ last.cookieToken # NoToken /\ last.headerToken = ForgedCsrf
  /\ RowOf(last.tok) # 0 /\ ~refreshTokens[RowOf(last.tok)].revoked

\* C32: the chain of replacedByTokenId.  In every state a row with a
\* replacedByTokenId is revoked, and the row it points to exists, is newer,
\* belongs to the same user and was created by a Refresh that had matched
\* this row; and a row that was revoked without a rotation (by Logout or by
\* deleteUser: Refresh sets both columns at once) keeps its null
\* replacedByTokenId.
C32_ChainIsAuditTrail ==
  /\ [](\A i \in RowIds :
          refreshTokens[i].replacedByTokenId # 0 =>
            /\ refreshTokens[i].revoked
            /\ refreshTokens[i].replacedByTokenId \in RowIds
            /\ refreshTokens[i].replacedByTokenId > i
            /\ refreshTokens[refreshTokens[i].replacedByTokenId].userId
                 = refreshTokens[i].userId
            /\ refreshTokens[refreshTokens[i].replacedByTokenId].replaces = i)
  /\ [][ \A i \in RowIds :
           refreshTokens[i].revoked /\ refreshTokens[i].replacedByTokenId = 0 =>
             refreshTokens'[i].replacedByTokenId = 0 ]_vars

\* C33: the username and the avatar of a presence entry.  The user a
\* handshake lets through is the store's row as read in that step; an entry
\* that enters the map is created by the connection handler of a socket of
\* that user, with the username and avatar its handshake read and one
\* connection; and for as long as the entry stays in the map, no step
\* changes its username or avatar.
C33_PresenceMetadataFrame ==
  [][ /\ \A u \in DOMAIN presence \cap DOMAIN presence' :
           /\ presence'[u].username = presence[u].username
           /\ presence'[u].avatarUrl = presence[u].avatarUrl
      /\ \A u \in DOMAIN presence' \ DOMAIN presence :
           \E s \in DOMAIN sockets :
             /\ sockets[s].state = "pending" /\ sockets'[s].state = "open"
             /\ sockets[s].user.id = u
             /\ presence'[u].username = sockets[s].user.username
             /\ presence'[u].avatarUrl = sockets[s].user.avatarUrl
             /\ presence'[u].connections = 1
      /\ Len(sockets') > Len(sockets) /\ sockets'[Len(sockets')].state = "pending" =>
           LET read == sockets'[Len(sockets')].user
           IN  /\ read.id \in UserIds
               /\ read.username = users[read.id].username
               /\ read.avatarUrl = users[read.id].avatarUrl ]_vars

\* A user is online with two connections and an entry that still shows the
\* username read by the first, which the store's row no longer has.
C33_Witness ==
  /\ 1 \in DOMAIN presence
  /\ presence[1].connections = 2
  /\ presence[1].username # users[1].username
  /\ \E s \in OpenSockets : sockets[s].user.username = users[1].username

\* C39: after deleteUser(u) has completed, a handshake that presents an
\* access token of u is refused, also when the token has not expired, so no
\* later handshake leads to a connection of u or to an entry of u in the
\* presence map.
C39_NoConnectionAfterDelete ==
  [][ Len(sockets') > Len(sockets) =>
        LET attempt == sockets'[Len(sockets')]
        IN  attempt.state = "pending" => ~DeleteDone(attempt.user.id) ]_vars

\* C38: the claims of issued tokens.  A Login or Refresh answered 200
\* returns a refresh token and an access token whose subject is the user
\* that owns the presented credentials (the row with the presented username,
\* the owner of the matched refresh-token row) and whose role claim is the
\* role the store holds for that user; so once updateRole has completed,
\* the tokens of a later Login or Refresh carry the new role.
C38_TokenClaims ==
  last.op \in {"login", "refresh"} /\ last.status = 200 =>
    /\ last.out.kind = "refresh" /\ last.access.kind = "access"
    /\ last.user \in UserIds
    /\ last.out.sub = last.user /\ last.access.sub = last.user
    /\ last.out.role = users[last.user].role
    /\ last.access.role = users[last.user].role
    /\ last.op = "login" => users[last.user].username = last.username
    /\ last.op = "refresh" =>
         /\ last.tok.sub = last.user
         /\ refreshTokens[last.matched].userId = last.user

\* A Refresh is being answered 200 with tokens that carry another role than
\* the token presented: updateRole has completed in between.
C38_Witness ==
  /\ last.op = "refresh" /\ last.status = 200
  /\ last.tok.role # last.out.role
  /\ last.out.role = users[last.user].role

\* There is a user with role ADMIN that is not deleted.
AnAdmin == \E u \in UserIds : users[u].role = "ADMIN" /\ ~users[u].deleted

\* C37: once there is a non-deleted ADMIN, there is one in every later
\* state, whatever updateRole and deleteUser calls the callers that passed
\* requireAdmin make and however these calls overlap.
C37_AnAdminRemains ==
  [][ AnAdmin => AnAdmin' ]_vars

\* The calls that change a message, and the event each ends with.
MessageOps == {"createMessage", "updateMessage", "deleteMessage"}

EventOf(op) ==
  CASE op = "createMessage" -> "message:create"
    [] op = "updateMessage" -> "message:update"
    [] OTHER -> "message:delete"

\* C34: a createMessage, updateMessage or deleteMessage that succeeds sends
\* exactly one event, of its kind and naming its message, in the step that
\* answers, when its write is already in the table; a call answered 400,
\* 403 or 404 has written nothing and sends nothing; and a message event
\* is only ever sent by the answering step of a successful call.
C34_EventPerChange ==
  [][ /\ (last = NoResponse /\ last' # NoResponse /\ last'.op \in MessageOps) =>
           IF last'.status \in {200, 201, 204}
           THEN /\ Len(wire') = Len(wire) + 1
                /\ SubSeq(wire', 1, Len(wire)) = wire
                /\ wire'[Len(wire')].event = EventOf(last'.op)
                /\ wire'[Len(wire')].payload.id = last'.target
                /\ last'.wrote
                /\ messages' = messages
                /\ last'.target \in DOMAIN messages
                /\ last'.op = "deleteMessage" => messages[last'.target].deleted
           ELSE /\ wire' = wire
                /\ last'.status \in {400, 403, 404} =>
                     ~last'.wrote /\ messages' = messages
      /\ (Len(wire') > Len(wire) /\ wire'[Len(wire')].event \in MessageEvents) =>
           /\ last = NoResponse
           /\ last'.op \in MessageOps
           /\ last'.status \in {200, 201, 204} ]_vars

C34_Witness ==
  /\ last.op = "deleteMessage"
  /\ last.status = 204
  /\ \E j, k \in DOMAIN wire :
       /\ j < k
       /\ wire[j].event = "message:update"
       /\ wire[k].event = "message:delete"

\* The requester of call c is neither the author of the message it names
\* nor, for a delete, an ADMIN by the role claim of the access token.
Foreign(c) ==
  /\ c.op \in {"updateMessage", "deleteMessage"}
  /\ c.target \in DOMAIN messages
  /\ messages[c.target].authorId # c.user
  /\ c.op = "deleteMessage" => c.role # "ADMIN"

\* A content is written only by an updateMessage of the message's author,
\* and a message is soft-deleted only by a deleteMessage of its author or
\* of an ADMIN.
OnlyEntitledWrite ==
  \A i \in DOMAIN messages :
    /\ messages'[i].content # messages[i].content =>
         \E p \in Procs : /\ proc[p].op = "updateMessage"
                          /\ proc[p].target = i
                          /\ proc[p].user = messages[i].authorId
    /\ (messages'[i].deleted /\ ~messages[i].deleted) =>
         \E p \in Procs : /\ proc[p].op = "deleteMessage"
                          /\ proc[p].target = i
                          /\ \/ proc[p].user = messages[i].authorId
                             \/ proc[p].role = "ADMIN"

C36_DeletionTerminal ==
  /\ [](/\ (last.op = "listMessages" /\ last.status = 200) =>
             \A k \in DOMAIN last.listed : ~messages[last.listed[k].id].deleted
        /\ (last.op \in {"updateMessage", "deleteMessage"} /\ last.class = "deleted") =>
             last.status = 404
        /\ \A j, k \in DOMAIN wire :
             (/\ j < k
              /\ wire[j].event = "message:delete"
              /\ wire[k].event \in {"message:update", "message:delete"}) =>
               wire[k].payload.id # wire[j].payload.id)
  /\ [][\A i \in DOMAIN messages :
          messages[i].deleted => messages'[i] = messages[i]]_vars

====
